---- MODULE Spec2Model ----
(***************************************************************************)
(* A model of muclic, a command-line music downloader: search a catalog,   *)
(* pick results, build Song / Album items, download them, fetch a cover    *)
(* and write tags, then remove the temporary cover files.                  *)
(*                                                                         *)
(* Strings are sequences of one-character strings, so that strip, lower,   *)
(* split and int are computed as Python computes them.  A dict is a        *)
(* function whose DOMAIN is the set of keys that are present; a missing    *)
(* key is a KeyError.  Optional integers are <<>> (None) or <<v>>.         *)
(***************************************************************************)
EXTENDS Integers, Sequences, FiniteSets, TLC

VARIABLES
  rev,          \* the revision that runs: the package (src/src/muclic) or the script (src/muclic.py)
  env,          \* the environment: the catalog's answer to the search, the
                \* number of lines on standard input
  pc,           \* position of main(): the step that runs next
  args,         \* App.args: is_song, no_tag, dump_json, dir
  mutagen,      \* "mutagen" in sys.modules
  results,      \* search_results returned by App.search
  choices,      \* user_choices returned by App.get_user_choices
  prompts,      \* the lines get_user_choices has read at its prompt
  items,        \* App.items
  idx,          \* loop index of download_items / tag_items / cleanup
  temp_files,   \* the temp_files list of App.tag_items (TEMP_FILES in the script)
  disk,         \* file system: directories, working directory, files
  exit_status,  \* <<>> while the process runs, <<code>> once it has ended
  log,          \* history: the external calls made so far, in order
  fn            \* the function under check with its input and result; or the
                \* local variable `result` of get_user_choices when it is traced

vars == <<rev, env, pc, args, mutagen, results, choices, prompts, items, idx,
          temp_files, disk, exit_status, log, fn>>

runVars == <<rev, env, pc, args, mutagen, results, choices, prompts, items,
             idx, temp_files, disk, exit_status, log>>

----------------------------------------------------------------------------
(* Bounds of the model. *)

MaxArtists == 3
MaxThumbs == 3
MaxStr == 4
MaxLine == 3
MaxResults == 2
MaxPrompts == 1
MaxEntries == 1

----------------------------------------------------------------------------
(* Python values. *)

None == <<>>
Some(v) == <<v>>

NoInfo == [none |-> TRUE]

Returned(v) == [ok |-> TRUE, val |-> v]
Raised(e) == [ok |-> FALSE, exc |-> e]

SeqsUpTo(S, n) == UNION {[1..k -> S] : k \in 0..n}

Range(s) == {s[i] : i \in DOMAIN s}

----------------------------------------------------------------------------
(* str methods. *)

Whitespace == {" "}

Digits == {"0", "1", "2", "3", "4", "5", "6", "7", "8", "9"}

DigitVal(c) ==
  CASE c = "0" -> 0 [] c = "1" -> 1 [] c = "2" -> 2 [] c = "3" -> 3
    [] c = "4" -> 4 [] c = "5" -> 5 [] c = "6" -> 6 [] c = "7" -> 7
    [] c = "8" -> 8 [] c = "9" -> 9

DigitChar(d) == <<"0", "1", "2", "3", "4", "5", "6", "7", "8", "9">>[d + 1]

RECURSIVE LStrip(_)
LStrip(s) ==
  IF s # <<>> /\ Head(s) \in Whitespace THEN LStrip(Tail(s)) ELSE s

RECURSIVE RStrip(_)
RStrip(s) ==
  IF s # <<>> /\ s[Len(s)] \in Whitespace
  THEN RStrip(SubSeq(s, 1, Len(s) - 1))
  ELSE s

\* str.strip()
Strip(s) == RStrip(LStrip(s))

LowerChar(c) == CASE c = "Q" -> "q" [] c = "A" -> "a" [] c = "B" -> "b" [] OTHER -> c

\* str.lower()
Lower(s) == [i \in DOMAIN s |-> LowerChar(s[i])]

\* str.split(): the maximal runs of non-whitespace characters, in order
RECURSIVE SplitWs(_, _, _)
SplitWs(s, cur, acc) ==
  IF s = <<>>
  THEN IF cur = <<>> THEN acc ELSE Append(acc, cur)
  ELSE IF Head(s) \in Whitespace
       THEN SplitWs(Tail(s), <<>>, IF cur = <<>> THEN acc ELSE Append(acc, cur))
       ELSE SplitWs(Tail(s), Append(cur, Head(s)), acc)

\* str.split(sep): every segment between separators, empty ones included
RECURSIVE SplitOn(_, _, _, _)
SplitOn(s, sep, cur, acc) ==
  IF s = <<>>
  THEN Append(acc, cur)
  ELSE IF Head(s) = sep
       THEN SplitOn(Tail(s), sep, <<>>, Append(acc, cur))
       ELSE SplitOn(Tail(s), sep, Append(cur, Head(s)), acc)

RECURSIVE DigitsVal(_, _)
DigitsVal(s, acc) ==
  IF s = <<>> THEN acc ELSE DigitsVal(Tail(s), 10 * acc + DigitVal(Head(s)))

AllDigits(s) == s # <<>> /\ \A i \in DOMAIN s : s[i] \in Digits

\* int(token): Returned(n), or Raised("ValueError")
ParseInt(t) ==
  IF AllDigits(t) THEN Returned(DigitsVal(t, 0))
  ELSE IF t # <<>> /\ Head(t) = "-" /\ AllDigits(Tail(t))
       THEN Returned(0 - DigitsVal(Tail(t), 0))
       ELSE IF t # <<>> /\ Head(t) = "+" /\ AllDigits(Tail(t))
            THEN Returned(DigitsVal(Tail(t), 0))
            ELSE Raised("ValueError")

\* str(n) for an integer n >= 0
RECURSIVE IntToStr(_)
IntToStr(n) ==
  IF n < 10 THEN <<DigitChar(n)>>
  ELSE Append(IntToStr(n \div 10), DigitChar(n % 10))

----------------------------------------------------------------------------
(* Paths: absolute or relative, a sequence of components. *)

Home == [abs |-> TRUE, parts |-> <<"home">>]

\* f"{dir}/{a}/{b}"
JoinPath(dir, a, b) == [abs |-> dir.abs, parts |-> dir.parts \o <<a, b>>]

\* os.path.expanduser
ExpandUser(p) ==
  IF ~p.abs /\ p.parts # <<>> /\ p.parts[1] = "~"
  THEN [abs |-> TRUE, parts |-> Home.parts \o Tail(p.parts)]
  ELSE p

----------------------------------------------------------------------------
(* Artist resolution and the factories. *)

\* Mutant: the entry at index 0 whenever there is one
ListingArtist_IndexZero(result) ==
  IF Len(result.artists) >= 1 THEN Returned(result.artists[1].name)
  ELSE Raised("IndexError")

ListingArtist_DefaultsEmpty(result) ==
  IF Len(result.artists) >= 2 THEN Returned(result.artists[2].name)
  ELSE IF Len(result.artists) >= 1 THEN Returned(result.artists[1].name)
       ELSE Returned(<<>>)

\* result["artists"][1]["name"], and on IndexError result["artists"][0]["name"]
ListingArtist(result) ==
  IF Len(result.artists) >= 2 THEN Returned(result.artists[2].name)
  ELSE IF Len(result.artists) >= 1 THEN Returned(result.artists[1].name)
       ELSE Raised("IndexError")

COLOR1 == "94m"
COLOR2 == "96m"

\* The lines App.get_user_choices prints before it prompts; an error of the
\* artist lookup propagates.
RECURSIVE Listing(_, _, _)
Listing(search_results, index, acc) ==
  IF index >= Len(search_results) THEN Returned(acc)
  ELSE LET result == search_results[index + 1]
           artist == ListingArtist(result)
       IN IF ~artist.ok THEN artist
          ELSE Listing(search_results, index + 1,
                       Append(acc, [color |-> IF index % 2 = 0 THEN COLOR1 ELSE COLOR2,
                                    number |-> index + 1,
                                    artist |-> artist.val,
                                    title |-> result.title]))

WatchUrl(song_id) == [page |-> "watch?v=", id |-> song_id]
PlaylistUrl(album_id) == [page |-> "playlist?list=", id |-> album_id]

\* SongFactory.createSongFromSearch
createSongFromSearch(data, dir) ==
  IF "title" \notin DOMAIN data \/ "artists" \notin DOMAIN data
  THEN Raised("KeyError")
  ELSE LET artist == IF Len(data.artists) >= 2 THEN Returned(data.artists[2].name)
                     ELSE IF Len(data.artists) >= 1 THEN Returned(data.artists[1].name)
                          ELSE Raised("IndexError")
       IN IF ~artist.ok THEN artist
          ELSE IF "album" \notin DOMAIN data \/ "videoId" \notin DOMAIN data
               THEN Raised("KeyError")
               ELSE Returned([kind |-> "Song",
                              title |-> data.title,
                              artist |-> artist.val,
                              path |-> ExpandUser(JoinPath(dir, artist.val, data.album.name)),
                              url |-> WatchUrl(data.videoId),
                              cover |-> None,
                              info |-> NoInfo,
                              album_title |-> data.album.name,
                              song_id |-> data.videoId])

\* AlbumFactory.createAlbum; yt maps a browse id to what get_album returns
createAlbum(data, dir, yt) ==
  IF "title" \notin DOMAIN data \/ "artists" \notin DOMAIN data
  THEN Raised("KeyError")
  ELSE LET artist == IF Len(data.artists) >= 2 THEN Returned(data.artists[2].name)
                     ELSE IF Len(data.artists) >= 1 THEN Returned(data.artists[1].name)
                          ELSE Raised("IndexError")
       IN IF ~artist.ok THEN artist
          ELSE IF "browseId" \notin DOMAIN data THEN Raised("KeyError")
               ELSE LET album_id == yt[data.browseId].audioPlaylistId
                    IN Returned([kind |-> "Album",
                                 title |-> data.title,
                                 artist |-> artist.val,
                                 path |-> ExpandUser(JoinPath(dir, artist.val, data.title)),
                                 url |-> PlaylistUrl(album_id),
                                 info |-> NoInfo,
                                 cover |-> None,
                                 album_id |-> album_id,
                                 songs |-> <<>>])

createSongFromSongInfo_NoInfo(data, path) ==
  IF "track" \notin DOMAIN data \/ "artist" \notin DOMAIN data
  THEN Raised("KeyError")
  ELSE LET field == data.artist
           first == IF field.kind = "str"
                    THEN IF field.val = <<>> THEN Raised("IndexError")
                         ELSE Returned(<<field.val[1]>>)
                    ELSE IF field.elems = <<>> THEN Raised("IndexError")
                         ELSE Returned(field.elems[1])
       IN IF ~first.ok THEN first
          ELSE IF "album" \notin DOMAIN data THEN Raised("KeyError")
               ELSE Returned([kind |-> "Song",
                              title |-> data.track,
                              artist |-> first.val,
                              path |-> path,
                              url |-> [page |-> "", id |-> ""],
                              cover |-> None,
                              info |-> NoInfo,
                              album_title |-> data.album,
                              song_id |-> ""])

\* SongFactory.createSongFromSongInfo: data["artist"][0] is the first
\* element of a list and the first character of a str
createSongFromSongInfo(data, path) ==
  IF "track" \notin DOMAIN data \/ "artist" \notin DOMAIN data
  THEN Raised("KeyError")
  ELSE LET field == data.artist
           first == IF field.kind = "str"
                    THEN IF field.val = <<>> THEN Raised("IndexError")
                         ELSE Returned(<<field.val[1]>>)
                    ELSE IF field.elems = <<>> THEN Raised("IndexError")
                         ELSE Returned(field.elems[1])
       IN IF ~first.ok THEN first
          ELSE IF "album" \notin DOMAIN data THEN Raised("KeyError")
               ELSE Returned([kind |-> "Song",
                              title |-> data.track,
                              artist |-> first.val,
                              path |-> path,
                              url |-> [page |-> "", id |-> ""],
                              cover |-> None,
                              info |-> data,
                              album_title |-> data.album,
                              song_id |-> ""])

----------------------------------------------------------------------------
(* Cover selection. *)

THUMB_RES == 500

\* Album.get_cover, up to the retrieval: the URL it retrieves
RECURSIVE AlbumFirstWide(_, _)
AlbumFirstWide(thumbnails, i) ==
  IF i > Len(thumbnails) THEN None
  ELSE IF "width" \notin DOMAIN thumbnails[i] THEN AlbumFirstWide(thumbnails, i + 1)
       ELSE IF thumbnails[i].width >= THUMB_RES THEN Some(thumbnails[i].url)
            ELSE AlbumFirstWide(thumbnails, i + 1)

\* Mutant: falls back to the first entry of the list, not the last
AlbumCoverUrl_FirstFallback(info) ==
  IF "none" \in DOMAIN info THEN Raised("AssertionError")
  ELSE LET cover_url == AlbumFirstWide(info.thumbnails, 1)
       IN IF cover_url # None THEN Returned(cover_url[1])
          ELSE IF info.thumbnails = <<>> THEN Raised("IndexError")
               ELSE Returned(info.thumbnails[1].url)

AlbumCoverUrl_DefaultsOnEmpty(info) ==
  IF "none" \in DOMAIN info THEN Raised("AssertionError")
  ELSE LET cover_url == AlbumFirstWide(info.thumbnails, 1)
       IN IF cover_url # None THEN Returned(cover_url[1])
          ELSE IF info.thumbnails = <<>> THEN Returned("u1")
               ELSE Returned(info.thumbnails[Len(info.thumbnails)].url)

AlbumCoverUrl(info) ==
  IF "none" \in DOMAIN info THEN Raised("AssertionError")
  ELSE LET cover_url == AlbumFirstWide(info.thumbnails, 1)
       IN IF cover_url # None THEN Returned(cover_url[1])
          ELSE IF info.thumbnails = <<>> THEN Raised("IndexError")
               ELSE Returned(info.thumbnails[Len(info.thumbnails)].url)

\* Song.get_cover, up to the retrieval; hits is what the album search returned
RECURSIVE SongFirstWide(_, _)
SongFirstWide(thumbnails, i) ==
  IF i > Len(thumbnails) THEN None
  ELSE IF "width" \notin DOMAIN thumbnails[i] THEN SongFirstWide(thumbnails, i + 1)
       ELSE IF thumbnails[i].width >= THUMB_RES THEN Some(thumbnails[i].url)
            ELSE SongFirstWide(thumbnails, i + 1)

SongCoverUrl_FirstFallback(hits) ==
  IF hits = <<>> THEN Raised("IndexError")
  ELSE LET album_search_results == hits[1]
       IN IF "thumbnails" \notin DOMAIN album_search_results
          THEN Raised("AssertionError")
          ELSE LET thumbnails == album_search_results.thumbnails
                   cover_url == SongFirstWide(thumbnails, 1)
               IN IF cover_url # None THEN Returned(cover_url[1])
                  ELSE IF thumbnails = <<>> THEN Raised("IndexError")
                       ELSE Returned(thumbnails[1].url)

SongCoverUrl(hits) ==
  IF hits = <<>> THEN Raised("IndexError")
  ELSE LET album_search_results == hits[1]
       IN IF "thumbnails" \notin DOMAIN album_search_results
          THEN Raised("AssertionError")
          ELSE LET thumbnails == album_search_results.thumbnails
                   cover_url == SongFirstWide(thumbnails, 1)
               IN IF cover_url # None THEN Returned(cover_url[1])
                  ELSE IF thumbnails = <<>> THEN Raised("IndexError")
                       ELSE Returned(thumbnails[Len(thumbnails)].url)

----------------------------------------------------------------------------
(* Tagging: the tag fields Song.tag sets before it saves. *)

EmptyDict == [k \in {} |-> None]

\* Mutant: the whole string, not its first comma-separated segment
TagArtist_NoSplit(artist) ==
  IF artist.kind = "str" THEN Returned(artist.val)
  ELSE IF artist.elems = <<>> THEN Raised("IndexError")
       ELSE Returned(artist.elems[1])

\* The artist tag: the first comma-separated segment of a str, the first
\* element of a list.
TagArtist(artist) ==
  IF artist.kind = "str" THEN Returned(SplitOn(artist.val, ",", <<>>, <<>>)[1])
  ELSE IF artist.elems = <<>> THEN Raised("IndexError")
       ELSE Returned(artist.elems[1])

\* Mutant: no fallback to playlist_index
TagTrackNumber_NoFallback(info) ==
  IF "track_number" \in DOMAIN info /\ "n_entries" \in DOMAIN info
  THEN [trkn |-> <<info.track_number, info.n_entries>>]
  ELSE EmptyDict

\* The track-number tag: track_number with n_entries, on KeyError
\* playlist_index with n_entries, on KeyError nothing.
TagTrackNumber(info) ==
  IF "track_number" \in DOMAIN info /\ "n_entries" \in DOMAIN info
  THEN [trkn |-> <<info.track_number, info.n_entries>>]
  ELSE IF "playlist_index" \in DOMAIN info /\ "n_entries" \in DOMAIN info
       THEN [trkn |-> <<info.playlist_index, info.n_entries>>]
       ELSE EmptyDict

\* Song.tag from the opening of the cover file to the save: Returned(tags)
\* is the tag set that is saved, Raised(e) saves nothing.
SongTagFields(info, cover) ==
  IF cover = None THEN Raised("AssertionError")
  ELSE IF "artist" \notin DOMAIN info THEN Raised("KeyError")
  ELSE LET art == TagArtist(info.artist)
       IN IF ~art.ok THEN art
          ELSE IF "album" \notin DOMAIN info \/ "track" \notin DOMAIN info
                  \/ "release_year" \notin DOMAIN info
               THEN Raised("KeyError")
               ELSE Returned(
                      [ART |-> art.val, alb |-> info.album, nam |-> info.track]
                      @@ (IF info.release_year # None
                          THEN [day |-> IntToStr(info.release_year[1])]
                          ELSE EmptyDict)
                      @@ (IF "genre" \in DOMAIN info
                          THEN [gen |-> <<info.genre>>]
                          ELSE EmptyDict)
                      @@ TagTrackNumber(info)
                      @@ [covr |-> cover[1]])

----------------------------------------------------------------------------
(* The inputs of the functions above, drawn from bounded sets. *)

NameA == <<"A">>
NameB == <<"B">>

ArtistEntries == {[name |-> NameA], [name |-> NameB]}

ArtistLists == SeqsUpTo(ArtistEntries, MaxArtists)

SearchRecord(title, artists, id) ==
  [title |-> title, artists |-> artists, album |-> [name |-> <<"L">>],
   videoId |-> id, browseId |-> id]

SearchRecords == {SearchRecord(<<"T">>, a, "id1") : a \in ArtistLists}

DefaultDir == [abs |-> FALSE, parts |-> <<"~", "Music">>]
RelativeDir == [abs |-> FALSE, parts |-> <<"out">>]
Dirs == {DefaultDir, RelativeDir}

\* The catalog's answer to get_album, by browse id
Catalog ==
  [b \in {"id1", "id2", "id3", "id4"} |-> [audioPlaylistId |-> <<"P", b>>]]

Widths == {498, 499, 500, 501}
Urls == {"u1", "u2"}
Thumbnails == [url : Urls] \cup [width : Widths, url : Urls]
ThumbnailLists == SeqsUpTo(Thumbnails, MaxThumbs)

OptionalKeys == {"release_year", "genre", "track_number", "n_entries", "playlist_index"}
RequiredKeys == {"artist", "album", "track"}

StrArtist(s) == [kind |-> "str", val |-> s]
ListArtist(l) == [kind |-> "list", elems |-> l]

ArtistFields ==
  {StrArtist(s) : s \in SeqsUpTo({"A", "B", ",", " "}, MaxStr)}
  \cup {ListArtist(l) : l \in SeqsUpTo({NameA, <<"B", "C">>}, 2)}

FullEntry(artist, track, track_number, playlist_index, release_year) ==
  [artist |-> artist, album |-> <<"L">>, track |-> track,
   release_year |-> release_year, genre |-> <<"G">>,
   track_number |-> track_number, n_entries |-> 2,
   playlist_index |-> playlist_index]

Restrict(f, D) == [k \in D |-> f[k]]

\* Entries with every subset of the keys present
EntriesByKeys ==
  {Restrict(FullEntry(a, <<"x">>, tn, pi, ry), D) :
     D \in SUBSET (RequiredKeys \cup OptionalKeys),
     a \in {StrArtist(<<"A", ",", " ", "B">>), ListArtist(<<NameA>>)},
     tn \in {1}, pi \in {1, 2}, ry \in {None, Some(1999)}}

\* Entries with every key present and every form of the artist field
EntriesByArtist == {FullEntry(a, <<"x">>, 1, 2, None) : a \in ArtistFields}

TrackEntries == EntriesByKeys \cup EntriesByArtist

Covers == {None, Some(1)}

Call(op, arg) == [op |-> op, arg |-> arg, done |-> FALSE]
Done(call, out) == [op |-> call.op, arg |-> call.arg, done |-> TRUE, out |-> out]

\* The first n records of the catalog's ranking, whose records have one
\* artist or two in turn
Titles == <<"T", "U", "V", "W">>
Ids == <<"id1", "id2", "id3", "id4">>

Ranked(n) ==
  SearchRecord(<<Titles[n]>>,
               IF n % 2 = 1 THEN <<[name |-> NameA]>>
               ELSE <<[name |-> NameA], [name |-> NameB]>>,
               Ids[n])

Ranking(n) == [i \in 1..n |-> Ranked(i)]

\* Mutant: the picks parsed so far are returned when a token is not a number
ReadChoices_KeepsValid(line) ==
  IF Lower(Strip(line)) = <<"q">> THEN [kind |-> "exit"]
  ELSE LET tokens == SplitWs(line, <<>>, <<>>)
           valid == SelectSeq(tokens, LAMBDA t : ParseInt(t).ok)
       IN [kind |-> "choices",
           choices |-> [i \in DOMAIN valid |-> ParseInt(valid[i]).val]]

\* Mutant: the quit token is compared as typed
ReadChoices_ExactQuit(line) ==
  IF line = <<"q">> THEN [kind |-> "exit"]
  ELSE LET tokens == SplitWs(line, <<>>, <<>>)
           parsed == [i \in DOMAIN tokens |-> ParseInt(tokens[i])]
       IN IF \E i \in DOMAIN tokens : ~parsed[i].ok
          THEN [kind |-> "invalid"]
          ELSE [kind |-> "choices",
                choices |-> [i \in DOMAIN tokens |-> parsed[i].val]]

\* Mutant: a line without a token is asked again
ReadChoices_RejectsBlank(line) ==
  IF Lower(Strip(line)) = <<"q">> THEN [kind |-> "exit"]
  ELSE LET tokens == SplitWs(line, <<>>, <<>>)
           parsed == [i \in DOMAIN tokens |-> ParseInt(tokens[i])]
       IN IF tokens = <<>> \/ \E i \in DOMAIN tokens : ~parsed[i].ok
          THEN [kind |-> "invalid"]
          ELSE [kind |-> "choices",
                choices |-> [i \in DOMAIN tokens |-> parsed[i].val]]

\* One pass of the prompt loop of App.get_user_choices on the line read
ReadChoices(line) ==
  IF Lower(Strip(line)) = <<"q">> THEN [kind |-> "exit"]
  ELSE LET tokens == SplitWs(line, <<>>, <<>>)
           parsed == [i \in DOMAIN tokens |-> ParseInt(tokens[i])]
       IN IF \E i \in DOMAIN tokens : ~parsed[i].ok
          THEN [kind |-> "invalid"]
          ELSE [kind |-> "choices",
                choices |-> [i \in DOMAIN tokens |-> parsed[i].val]]

\* search_results[j] as Python indexes a list
PyIndex(list, j) ==
  IF 0 <= j /\ j < Len(list) THEN Returned(list[j + 1])
  ELSE IF j < 0 /\ 0 - j <= Len(list) THEN Returned(list[Len(list) + j + 1])
       ELSE Raised("IndexError")

\* The song branch of App.create_media_items
RECURSIVE SongItems(_, _, _, _, _)
SongItems(user_choices, search_results, dir, k, acc) ==
  IF k > Len(user_choices) THEN Returned(acc)
  ELSE LET data == PyIndex(search_results, user_choices[k] - 1)
       IN IF ~data.ok THEN data
          ELSE LET item == createSongFromSearch(data.val, dir)
               IN IF ~item.ok THEN item
                  ELSE SongItems(user_choices, search_results, dir, k + 1,
                                 Append(acc, item.val))

\* get_user_choices on the line read, then the song branch of
\* create_media_items on the picks it returns
PicksToItems(line, search_results, dir) ==
  LET read == ReadChoices(line)
  IN IF read.kind = "choices"
     THEN SongItems(read.choices, search_results, dir, 1, <<>>)
     ELSE Raised("ValueError")

\* Lines of one pick: 0, and the numbers up to one past the number of
\* results, with either sign
PickLines ==
  {IntToStr(n) : n \in 0..(MaxResults + 1)}
  \cup {<<"-">> \o IntToStr(n) : n \in 1..(MaxResults + 1)}

\* The paths of albums, as createAlbum builds them
AlbumPaths == {ExpandUser(JoinPath(d, NameA, <<"T">>)) : d \in Dirs}

PureCalls ==
  {Call("listing", [search_results |-> rs]) :
     rs \in SeqsUpTo(SearchRecords, MaxResults) \ {<<>>}}
  \cup {Call("createSongFromSearch", [data |-> r, dir |-> d]) :
          r \in SearchRecords, d \in Dirs}
  \cup {Call("createAlbum", [data |-> r, dir |-> d, yt |-> Catalog]) :
          r \in SearchRecords, d \in Dirs}
  \cup {Call("Album.get_cover", [thumbnails |-> t]) : t \in ThumbnailLists}
  \cup {Call("Song.get_cover", [hits |-> <<[thumbnails |-> t]>>]) : t \in ThumbnailLists}
  \cup {Call("Song.tag", [info |-> e, cover |-> c]) :
          e \in TrackEntries, c \in Covers}
  \cup {Call("createSongFromSongInfo", [data |-> e, path |-> p]) :
          e \in EntriesByArtist, p \in AlbumPaths}
  \cup {Call("create_media_items",
               [line |-> l, search_results |-> Ranking(n), dir |-> DefaultDir]) :
          l \in PickLines, n \in 0..MaxResults}

----------------------------------------------------------------------------
(* The file system. *)

StartDir == <<"work">>

Prefixes(parts) == {SubSeq(parts, 1, k) : k \in 0..Len(parts)}

\* dirs: the directories that exist; cwd: the working directory; temp: the
\* temporary files that exist; made: how many urlretrieve has created;
\* files: the audio files written; tags: the tag sets saved, by file;
\* json: the diagnostic files written.
EmptyDisk ==
  [dirs |-> Prefixes(StartDir) \cup Prefixes(Home.parts), cwd |-> StartDir,
   temp |-> {}, made |-> 0, files |-> {}, tags |-> {}, json |-> {}]

\* A path as the operating system resolves it
Resolve(cwd, path) == IF path.abs THEN path.parts ELSE cwd \o path.parts

----------------------------------------------------------------------------
(* The specification of the functions: a call is drawn, then applied. *)

RunIdle ==
  /\ rev = "package"
  /\ env = [search |-> <<>>, stdin |-> 0]
  /\ prompts = 0
  /\ pc = "idle"
  /\ args = [is_song |-> TRUE, no_tag |-> FALSE, dump_json |-> FALSE, dir |-> DefaultDir]
  /\ mutagen = TRUE
  /\ results = <<>>
  /\ choices = <<>>
  /\ items = <<>>
  /\ idx = 0
  /\ temp_files = <<>>
  /\ disk = EmptyDisk
  /\ exit_status = None
  /\ log = <<>>

PureInit == RunIdle /\ fn \in PureCalls

Pending(op) == pc = "idle" /\ ~fn.done /\ fn.op = op

ApplyListing ==
  /\ Pending("listing")
  /\ fn' = Done(fn, Listing(fn.arg.search_results, 0, <<>>))
  /\ UNCHANGED runVars

ApplyCreateSong ==
  /\ Pending("createSongFromSearch")
  /\ fn' = Done(fn, createSongFromSearch(fn.arg.data, fn.arg.dir))
  /\ UNCHANGED runVars

ApplyCreateAlbum ==
  /\ Pending("createAlbum")
  /\ fn' = Done(fn, createAlbum(fn.arg.data, fn.arg.dir, fn.arg.yt))
  /\ UNCHANGED runVars

ApplyAlbumCover ==
  /\ Pending("Album.get_cover")
  /\ fn' = Done(fn, AlbumCoverUrl(fn.arg))
  /\ UNCHANGED runVars

ApplySongCover ==
  /\ Pending("Song.get_cover")
  /\ fn' = Done(fn, SongCoverUrl(fn.arg.hits))
  /\ UNCHANGED runVars

ApplySongTag ==
  /\ Pending("Song.tag")
  /\ fn' = Done(fn, SongTagFields(fn.arg.info, fn.arg.cover))
  /\ UNCHANGED runVars

ApplyCreateSongFromSongInfo ==
  /\ Pending("createSongFromSongInfo")
  /\ fn' = Done(fn, createSongFromSongInfo(fn.arg.data, fn.arg.path))
  /\ UNCHANGED runVars

ApplyCreateMediaItems ==
  /\ Pending("create_media_items")
  /\ fn' = Done(fn, PicksToItems(fn.arg.line, fn.arg.search_results, fn.arg.dir))
  /\ UNCHANGED runVars

PureNext ==
  \/ ApplyListing
  \/ ApplyCreateSong
  \/ ApplyCreateAlbum
  \/ ApplyAlbumCover
  \/ ApplySongCover
  \/ ApplySongTag
  \/ ApplyCreateSongFromSongInfo
  \/ ApplyCreateMediaItems

SpecPure == PureInit /\ [][PureNext]_vars

Applied(op) == pc = "idle" /\ fn.done /\ fn.op = op

----------------------------------------------------------------------------
(* The run: main() and the App methods it calls, one action per step.      *)

Revisions == {"package", "script"}

\* What the search can return: the first records of the ranking, or a
\* record with no artist
NoArtistRecord == SearchRecord(<<"X">>, <<>>, "id1")

SearchAnswers == {Ranking(n) : n \in 0..MaxResults} \cup {<<NoArtistRecord>>}

\* search: what the catalog answers; stdin: the lines standard input holds
\* before its end
Environments == [search : SearchAnswers, stdin : {MaxPrompts}]

Configs == [is_song : BOOLEAN, no_tag : BOOLEAN, dump_json : BOOLEAN, dir : Dirs]

NotTraced == [op |-> "off"]
Traced(line) == [op |-> "trace", line |-> line]

RunStart ==
  /\ pc = "search"
  /\ results = <<>>
  /\ choices = <<>>
  /\ prompts = 0
  /\ items = <<>>
  /\ idx = 0
  /\ temp_files = <<>>
  /\ disk = EmptyDisk
  /\ exit_status = None
  /\ log = <<>>

Init ==
  /\ rev \in Revisions
  /\ env \in Environments
  /\ args \in Configs
  /\ mutagen \in BOOLEAN
  /\ fn = NotTraced
  /\ RunStart

\* Mutant: a keyboard interrupt ends the process like any other error
MainExit_InterruptFails(revision, exc) ==
  IF exc = "SystemExit" THEN 0 ELSE 1

\* The exit status main() and the __main__ guard give an exception that
\* reaches them.  exit() raises SystemExit with status 0, exit(message)
\* with status 1; an uncaught exception ends the interpreter with status 1.
MainExit(revision, exc) ==
  IF exc = "KeyboardInterrupt" THEN 0
  ELSE IF exc = "ConnectionError" /\ revision = "package" THEN 1
       ELSE IF exc = "SystemExit" THEN 0
            ELSE 1

Event(ev) == [ev |-> ev]
ItemEvent(ev, i) == [ev |-> ev, item |-> i]
RaiseEvent(exc) == [ev |-> "raise", exc |-> exc]

\* The errors the catalog can raise in App.search, besides the
\* ReadTimeoutError that search handles
SearchErrors == {"ConnectionError", "Exception"}

Ends_CarriesOn(exc, done) ==
  /\ log' = (log \o done) \o <<RaiseEvent(exc)>>
  /\ UNCHANGED <<pc, exit_status>>

\* The process ends with exception exc, after the events in done
Ends(exc, done) ==
  /\ pc' = "exited"
  /\ exit_status' = Some(MainExit(rev, exc))
  /\ log' = (log \o done) \o <<RaiseEvent(exc)>>

\* main() returns
Completes(done) ==
  /\ pc' = "exited"
  /\ exit_status' = Some(0)
  /\ log' = (log \o done) \o <<Event("return")>>

Running == pc \notin {"idle", "exited"}

JsonFile(name) == [dir |-> disk.cwd, name |-> name]

\* App.search
Search ==
  /\ pc = "search"
  /\ \E outcome \in {"ok", "ReadTimeoutError"} \cup SearchErrors :
       IF outcome = "ok"
       THEN /\ results' = env.search
            /\ disk' = IF rev = "package" /\ args.dump_json
                       THEN [disk EXCEPT !.json = @ \cup {JsonFile("results.json")}]
                       ELSE disk
            /\ pc' = "listing"
            /\ log' = Append(log, Event("search"))
            /\ UNCHANGED exit_status
       ELSE /\ Ends(IF outcome = "ReadTimeoutError" THEN "SystemExit(message)"
                    ELSE outcome, <<>>)
            /\ UNCHANGED <<results, disk>>
  /\ UNCHANGED <<rev, env, args, mutagen, choices, prompts, items, idx,
                 temp_files, fn>>

\* App.get_user_choices, up to its prompt: the numbered list
ShowListing ==
  /\ pc = "listing"
  /\ LET listing == Listing(results, 0, <<>>)
     IN IF listing.ok
        THEN pc' = "prompt" /\ UNCHANGED <<exit_status, log>>
        ELSE Ends(listing.exc, <<>>)
  /\ UNCHANGED <<rev, env, args, mutagen, results, choices, prompts, items,
                 idx, temp_files, disk, fn>>

LineChars == {"q", "Q", " ", "1", "2"}

\* The lines typed at the prompt: numbers are of one digit
Lines ==
  {l \in SeqsUpTo(LineChars, MaxLine) :
     \A i \in 1..(Len(l) - 1) : ~(l[i] \in Digits /\ l[i + 1] \in Digits)}

\* App.get_user_choices: one line is read at the prompt
Prompt ==
  /\ pc = "prompt"
  /\ prompts' = prompts + 1
  /\ \/ \E line \in Lines :
          LET read == ReadChoices(line)
          IN /\ prompts < env.stdin
             /\ fn' = IF fn.op = "trace" THEN Traced(Some(line)) ELSE fn
             /\ CASE read.kind = "exit" ->
                       Ends("SystemExit", <<>>) /\ UNCHANGED choices
                  [] read.kind = "invalid" ->
                       UNCHANGED <<pc, exit_status, log, choices>>
                  [] read.kind = "choices" ->
                       /\ choices' = read.choices
                       /\ pc' = "create"
                       /\ UNCHANGED <<exit_status, log>>
     \/ /\ prompts = env.stdin
        /\ Ends("EOFError", <<>>)
        /\ UNCHANGED <<choices, fn>>
  /\ UNCHANGED <<rev, env, args, mutagen, results, items, idx, temp_files, disk>>

\* The album branch of App.create_media_items in the package: createAlbum
\* is called without its third argument, yt
PackageAlbumItems(user_choices, search_results, dir) ==
  IF user_choices = <<>> THEN Returned(<<>>)
  ELSE LET data == PyIndex(search_results, user_choices[1] - 1)
       IN IF ~data.ok THEN data ELSE Raised("TypeError")

\* App.create_media_items of the package
CreateMediaItems ==
  /\ pc = "create"
  /\ rev = "package"
  /\ LET built == IF args.is_song
                  THEN SongItems(choices, results, args.dir, 1, <<>>)
                  ELSE PackageAlbumItems(choices, results, args.dir)
     IN IF built.ok
        THEN /\ items' = built.val
             /\ pc' = "download"
             /\ idx' = 1
             /\ log' = Append(log, Event("create_media_items"))
             /\ UNCHANGED exit_status
        ELSE /\ Ends(built.exc, <<Event("create_media_items")>>)
             /\ UNCHANGED <<items, idx>>
  /\ fn' = IF fn.op = "trace" THEN Traced(None) ELSE fn
  /\ prompts' = 0
  /\ UNCHANGED <<rev, env, args, mutagen, results, choices, temp_files, disk>>

\* The album branch of App.create_media_items in the script; get_album
\* raises at the pick numbered failAt, at none when failAt = 0.  The result
\* carries the get_album calls made.
RECURSIVE AlbumItems(_, _, _, _, _, _, _)
AlbumItems(user_choices, search_results, dir, failAt, k, acc, calls) ==
  IF k > Len(user_choices) THEN [built |-> Returned(acc), calls |-> calls]
  ELSE LET data == PyIndex(search_results, user_choices[k] - 1)
       IN IF ~data.ok THEN [built |-> data, calls |-> calls]
          ELSE IF Len(data.val.artists) = 0
               THEN [built |-> Raised("IndexError"), calls |-> calls]
               ELSE LET called == Append(calls, [ev |-> "get_album",
                                                 id |-> data.val.browseId])
                    IN IF k = failAt
                       THEN [built |-> Raised("ConnectionError"), calls |-> called]
                       ELSE AlbumItems(user_choices, search_results, dir, failAt,
                                       k + 1,
                                       Append(acc, createAlbum(data.val, dir, Catalog).val),
                                       called)

\* App.create_media_items of the script
ScriptCreateMediaItems ==
  /\ pc = "create"
  /\ rev = "script"
  /\ \E failAt \in 0..Len(choices) :
       /\ args.is_song => failAt = 0
       /\ LET made == IF args.is_song
                      THEN [built |-> SongItems(choices, results, args.dir, 1, <<>>),
                            calls |-> <<>>]
                      ELSE AlbumItems(choices, results, args.dir, failAt, 1, <<>>, <<>>)
          IN /\ failAt # 0 => ~made.built.ok /\ made.built.exc = "ConnectionError"
             /\ IF made.built.ok
                THEN /\ items' = made.built.val
                     /\ pc' = "download"
                     /\ idx' = 1
                     /\ log' = Append(log, Event("create_media_items")) \o made.calls
                     /\ UNCHANGED exit_status
                ELSE /\ Ends(made.built.exc,
                             <<Event("create_media_items")>> \o made.calls)
                     /\ UNCHANGED <<items, idx>>
  /\ fn' = IF fn.op = "trace" THEN Traced(None) ELSE fn
  /\ prompts' = 0
  /\ UNCHANGED <<rev, env, args, mutagen, results, choices, temp_files, disk>>

\* A keyboard interrupt, at any step of the run
Interrupt ==
  /\ Running
  /\ Ends("KeyboardInterrupt", <<>>)
  /\ UNCHANGED <<rev, env, args, mutagen, results, choices, prompts, items,
                 idx, temp_files, disk, fn>>

----------------------------------------------------------------------------
(* Downloads. *)

\* What the download tool can answer for a track
EntryFull ==
  [artist |-> StrArtist(<<"A", ",", " ", "B">>), album |-> <<"L">>,
   track |-> <<"x">>, title |-> <<"x">>, release_year |-> Some(1999),
   genre |-> <<"G">>, track_number |-> 1, n_entries |-> 1, playlist_index |-> 1]

EntryNoYear ==
  [artist |-> ListArtist(<<NameA>>), album |-> <<"L">>,
   track |-> <<"x">>, title |-> <<"x">>, playlist_index |-> 1]

RunEntries == {EntryFull, EntryNoYear}

\* A playlist entry without album metadata
EntryNoAlbum ==
  [artist |-> ListArtist(<<NameA>>), track |-> <<"y">>, title |-> <<"y">>,
   release_year |-> None]

AlbumEntries == RunEntries \cup {EntryNoAlbum}

\* A second track of a playlist, and one whose title ends with the title
\* of EntryFull
EntrySecond ==
  [artist |-> ListArtist(<<NameA>>), album |-> <<"L">>,
   track |-> <<"y">>, title |-> <<"y">>, release_year |-> None,
   track_number |-> 2, n_entries |-> 2, playlist_index |-> 2]

EntrySuffixed ==
  [artist |-> ListArtist(<<NameA>>), album |-> <<"L">>,
   track |-> <<"y", "x">>, title |-> <<"y", "x">>, release_year |-> None,
   track_number |-> 2, n_entries |-> 2, playlist_index |-> 2]

\* Playlists of two tracks: the second track lacks a key, or both tracks
\* are complete
TwoTrackPlaylists ==
  {<<EntryFull, EntryNoYear>>, <<EntryFull, EntryNoAlbum>>,
   <<EntryFull, EntrySecond>>, <<EntryFull, EntrySuffixed>>}

NarrowThumb == [width |-> 499, url |-> "u1"]
WideThumb == [width |-> 500, url |-> "u2"]

\* What the download tool can answer for a playlist
AlbumInfos ==
  [thumbnails : {<<NarrowThumb, WideThumb>>},
   entries : SeqsUpTo(AlbumEntries, MaxEntries) \cup TwoTrackPlaylists]
  \cup {[thumbnails |-> <<>>, entries |-> <<EntryFull>>]}

\* Mutant: os.mkdir, which creates one directory and fails on an existing one
MakeDirs_Mkdir(d, path) ==
  LET target == Resolve(d.cwd, path)
  IN IF target \in d.dirs THEN Raised("FileExistsError")
     ELSE IF SubSeq(target, 1, Len(target) - 1) \notin d.dirs
          THEN Raised("FileNotFoundError")
          ELSE Returned([d EXCEPT !.dirs = @ \cup {target}])

\* os.makedirs(path, exist_ok=True)
MakeDirs(d, path) ==
  Returned([d EXCEPT !.dirs = @ \cup Prefixes(Resolve(d.cwd, path))])

\* os.chdir(path)
ChDir(d, path) ==
  LET target == Resolve(d.cwd, path)
  IN IF target \in d.dirs THEN Returned([d EXCEPT !.cwd = target])
     ELSE Raised("FileNotFoundError")

\* The file the download tool writes: "{artist} - {title}.{ext}"
AudioFile(dir, artist, title) ==
  [dir |-> dir, stem |-> (artist \o <<" ", "-", " ">>) \o title]

RECURSIVE add_songs_Prepends(_, _, _, _)
add_songs_Prepends(entries, path, k, songs) ==
  IF k > Len(entries) THEN [songs |-> songs, out |-> Returned(TRUE)]
  ELSE LET song == createSongFromSongInfo(entries[k], path)
       IN IF ~song.ok THEN [songs |-> songs, out |-> song]
          ELSE add_songs_Prepends(entries, path, k + 1, <<song.val>> \o songs)

\* Album.add_songs: the songs list after the loop, and the error that ended
\* the loop if one did
RECURSIVE add_songs(_, _, _, _)
add_songs(entries, path, k, songs) ==
  IF k > Len(entries) THEN [songs |-> songs, out |-> Returned(TRUE)]
  ELSE LET song == createSongFromSongInfo(entries[k], path)
       IN IF ~song.ok THEN [songs |-> songs, out |-> song]
          ELSE add_songs(entries, path, k + 1, Append(songs, song.val))

MakedirsEvent(i, target, existed) ==
  [ev |-> "makedirs", item |-> i, target |-> target, existed |-> existed]

\* Song.download / Album.download for the item at position idx
DownloadItem ==
  /\ pc = "download"
  /\ idx <= Len(items)
  /\ LET item == items[idx]
         target == Resolve(disk.cwd, item.path)
         made == MakeDirs(disk, item.path)
         calls == <<MakedirsEvent(idx, target, target \in disk.dirs)>>
     IN IF ~made.ok
        THEN /\ Ends(made.exc, calls)
             /\ UNCHANGED <<items, idx, disk>>
        ELSE LET moved == ChDir(made.val, item.path)
             IN IF ~moved.ok
                THEN /\ Ends(moved.exc, Append(calls, ItemEvent("chdir", idx)))
                     /\ disk' = made.val
                     /\ UNCHANGED <<items, idx>>
                ELSE LET called == calls \o <<ItemEvent("chdir", idx),
                                              ItemEvent("extract_info", idx)>>
                         here == moved.val.cwd
                     IN \/ /\ Ends("DownloadError", called)
                           /\ disk' = moved.val
                           /\ UNCHANGED <<items, idx>>
                        \/ /\ item.kind = "Song"
                           /\ \E info \in RunEntries :
                                /\ items' = [items EXCEPT ![idx].info = info]
                                /\ disk' = [moved.val EXCEPT !.files = @ \cup
                                              {AudioFile(here, item.artist, info.title)}]
                           /\ idx' = idx + 1
                           /\ log' = Append(log \o called, ItemEvent("downloaded", idx))
                           /\ UNCHANGED <<pc, exit_status>>
                        \/ /\ item.kind = "Album"
                           /\ \E info \in AlbumInfos :
                                LET added == add_songs(info.entries, item.path, 1, item.songs)
                                IN /\ items' = [items EXCEPT ![idx].info = info,
                                                             ![idx].songs = added.songs]
                                   /\ disk' = [moved.val EXCEPT !.files = @ \cup
                                                 {AudioFile(here, item.artist, info.entries[k].title) :
                                                    k \in DOMAIN info.entries}]
                                   /\ IF added.out.ok
                                      THEN /\ idx' = idx + 1
                                           /\ log' = Append(log \o called,
                                                            ItemEvent("downloaded", idx))
                                           /\ UNCHANGED <<pc, exit_status>>
                                      ELSE /\ Ends(added.out.exc, called)
                                           /\ UNCHANGED idx
  /\ UNCHANGED <<rev, env, args, mutagen, results, choices, prompts, temp_files, fn>>

DumpInfo_AfterFirst ==
  /\ pc = "download"
  /\ idx > 1
  /\ disk' = IF args.dump_json
             THEN [disk EXCEPT !.json = @ \cup {JsonFile("info.json")}]
             ELSE disk
  /\ pc' = IF rev = "package" THEN "lyrics" ELSE "tag_items"
  /\ UNCHANGED <<rev, env, args, mutagen, results, choices, prompts, items, idx,
                 temp_files, exit_status, log, fn>>

\* App.download_items after its loop: the dump of the collected metadata;
\* the package goes on to download_lyrics, the script to its tagging checks
DumpInfo ==
  /\ pc = "download"
  /\ idx > Len(items)
  /\ disk' = IF args.dump_json
             THEN [disk EXCEPT !.json = @ \cup {JsonFile("info.json")}]
             ELSE disk
  /\ pc' = IF rev = "package" THEN "lyrics" ELSE "tag_items"
  /\ UNCHANGED <<rev, env, args, mutagen, results, choices, prompts, items, idx,
                 temp_files, exit_status, log, fn>>

\* App.download_lyrics of the package.  Args.lyrics and the download_lyrics
\* methods of Song and Album are not part of the sources at hand; lyrics are
\* not requested, and the step returns at once.
DownloadLyrics ==
  /\ pc = "lyrics"
  /\ rev = "package"
  /\ pc' = "tag_items"
  /\ UNCHANGED <<rev, env, args, mutagen, results, choices, prompts, items, idx,
                 temp_files, disk, exit_status, log, fn>>

----------------------------------------------------------------------------
(* Covers, tags, cleanup. *)

\* Mutant: only the flag is looked at
SkipsTagging_FlagOnly(a, installed) == a.no_tag

\* The checks before the tagging loop: args.no_tag, "mutagen" in sys.modules
SkipsTagging(a, installed) == a.no_tag \/ ~installed

\* App.tag_items up to its loop (in the script, the checks of main() before
\* tag_items): tagging is skipped when no_tag is set or mutagen is missing.
\* The package then returns an empty temp_files list to main(), which goes
\* on to its cleanup loop; the script's main() returns.
TagItems ==
  /\ pc = "tag_items"
  /\ IF SkipsTagging(args, mutagen)
     THEN IF rev = "package"
          THEN /\ pc' = "cleanup"
               /\ idx' = 1
               /\ UNCHANGED <<exit_status, log>>
          ELSE /\ Completes(<<>>)
               /\ UNCHANGED idx
     ELSE /\ pc' = IF items = <<>> THEN "cleanup" ELSE "cover"
          /\ idx' = 1
          /\ UNCHANGED <<exit_status, log>>
  /\ UNCHANGED <<rev, env, args, mutagen, results, choices, prompts, items,
                 temp_files, disk, fn>>

\* What the album search of Song.get_cover can return
CoverHits ==
  {<<>>, <<[thumbnails |-> <<>>]>>, <<[thumbnails |-> <<NarrowThumb, WideThumb>>]>>}

\* The calls of get_cover that look for thumbnails: the album search of a
\* Song with its answer, the thumbnail list of an Album's metadata
CoverSearchEvent(i, hits) == [ev |-> "cover_search", item |-> i, hits |-> hits]
CoverLookupEvent(i, thumbnails) ==
  [ev |-> "get_cover", item |-> i, thumbnails |-> thumbnails]

RetrieveEvent(i, url, file) ==
  [ev |-> "urlretrieve", item |-> i, url |-> url, file |-> file]

RegisterCover_Forgets(files, cover) == files

\* temp_files.append(cover) in get_cover
RegisterCover(files, cover) == Append(files, cover)

StoreCover_Drops(item, cover) == item

\* self.cover = cover at the end of get_cover
StoreCover(item, cover) == [item EXCEPT !.cover = Some(cover)]

\* Song.get_cover / Album.get_cover for the item at position idx; urlretrieve
\* stores the cover in a new temporary file
GetCover ==
  /\ pc = "cover"
  /\ idx <= Len(items)
  /\ LET item == items[idx]
     IN \E hits \in CoverHits :
          /\ item.kind = "Album" => hits = <<>>
          /\ LET cover_url == IF item.kind = "Song" THEN SongCoverUrl(hits)
                              ELSE AlbumCoverUrl(item.info)
                 calls == IF item.kind = "Song"
                          THEN <<CoverSearchEvent(idx, hits)>>
                          ELSE <<CoverLookupEvent(idx, item.info.thumbnails)>>
                 cover == disk.made + 1
             IN IF ~cover_url.ok
                THEN /\ Ends(cover_url.exc, calls)
                     /\ UNCHANGED <<items, temp_files, disk>>
                ELSE \/ /\ Ends("URLError",
                                Append(calls, RetrieveEvent(idx, cover_url.val, None)))
                        /\ UNCHANGED <<items, temp_files, disk>>
                     \/ /\ disk' = [disk EXCEPT !.made = cover, !.temp = @ \cup {cover}]
                        /\ temp_files' = RegisterCover(temp_files, cover)
                        /\ items' = [items EXCEPT ![idx] = StoreCover(item, cover)]
                        /\ log' = log \o Append(calls,
                                     RetrieveEvent(idx, cover_url.val, Some(cover)))
                        /\ pc' = "tag"
                        /\ UNCHANGED exit_status
  /\ UNCHANGED <<rev, env, args, mutagen, results, choices, prompts, idx, fn>>

\* s ends with t
EndsWith(s, t) ==
  Len(t) <= Len(s) /\ SubSeq(s, Len(s) - Len(t) + 1, Len(s)) = t

\* fnmatch(name, "*{track}.*") for a file name "{stem}.{ext}" without
\* further dots
Matches(file, track) == EndsWith(file.stem, track)

SaveEvent(file, tags) == [ev |-> "save", file |-> file, tags |-> tags]

\* Song.tag: the outcomes it can have on disk d; which of several matching
\* files is the last one listed, and whether the file opened has tags, are
\* up to the environment
SongTagOutcomes(song, d) ==
  LET dir == Resolve(d.cwd, song.path)
      listed == {f \in d.files : f.dir = dir}
      Fails(exc) == {[out |-> Raised(exc), disk |-> d, events |-> <<>>]}
  IN IF "none" \in DOMAIN song.info THEN Fails("AssertionError")
     ELSE IF dir \notin d.dirs THEN Fails("FileNotFoundError")
     ELSE IF listed # {} /\ "track" \notin DOMAIN song.info THEN Fails("KeyError")
     ELSE LET matching == {f \in listed : Matches(f, song.info.track)}
          IN IF matching = {} THEN Fails("MutagenError")
             ELSE {[out |-> Returned(FALSE), disk |-> d, events |-> <<>>]}
                  \cup
                  {LET fields == SongTagFields(song.info, song.cover)
                   IN IF ~fields.ok
                      THEN [out |-> fields, disk |-> d, events |-> <<>>]
                      ELSE [out |-> Returned(TRUE),
                            disk |-> [d EXCEPT !.tags =
                                        {t \in @ : t.file # file}
                                        \cup {[file |-> file, tags |-> fields.val]}],
                            events |-> <<SaveEvent(file, fields.val)>>] :
                   file \in matching}

\* The call of item.tag() in App.tag_items, and the call of Song.tag on a
\* top-level Song (child 0) or on the k-th child of an Album, with the cover
\* and the presence of metadata the Song has at the call
TagCallEvent(i) == [ev |-> "item.tag", item |-> i]
SongTagEvent(k, song) ==
  [ev |-> "Song.tag", child |-> k, cover |-> song.cover,
   has_info |-> song.info # NoInfo]

RECURSIVE AlbumTagOutcomes_KeepsCover(_, _, _, _, _)
AlbumTagOutcomes_KeepsCover(songs, cover, k, d, events) ==
  IF k > Len(songs)
  THEN {[out |-> Returned(TRUE), songs |-> songs, disk |-> d, events |-> events]}
  ELSE UNION {IF ~t.out.ok
              THEN {[out |-> t.out, songs |-> songs, disk |-> t.disk,
                     events |-> (events \o <<SongTagEvent(k, songs[k])>>) \o t.events]}
              ELSE AlbumTagOutcomes_KeepsCover(songs, cover, k + 1, t.disk,
                     (events \o <<SongTagEvent(k, songs[k])>>) \o t.events) :
              t \in SongTagOutcomes(songs[k], d)}

\* Album.tag: each child gets the album's cover, then is tagged
RECURSIVE AlbumTagOutcomes(_, _, _, _, _)
AlbumTagOutcomes(songs, cover, k, d, events) ==
  IF k > Len(songs)
  THEN {[out |-> Returned(TRUE), songs |-> songs, disk |-> d, events |-> events]}
  ELSE LET covered == [songs EXCEPT ![k].cover = cover]
           called == Append(events, SongTagEvent(k, covered[k]))
       IN UNION {IF ~t.out.ok
                 THEN {[out |-> t.out, songs |-> covered, disk |-> t.disk,
                        events |-> called \o t.events]}
                 ELSE AlbumTagOutcomes(covered, cover, k + 1, t.disk,
                                       called \o t.events) :
                 t \in SongTagOutcomes(covered[k], d)}

AfterTag_CleansUpAtOnce(i, n) == [pc |-> "cleanup", idx |-> 1]

\* Where the loop of App.tag_items goes after the tag of item i of n: to the
\* cover of the next item, or after the last item to the cleanup of main()
AfterTag(i, n) ==
  IF i < n THEN [pc |-> "cover", idx |-> i + 1] ELSE [pc |-> "cleanup", idx |-> 1]

\* item.tag() for the item at position idx, and the step of the loop of
\* App.tag_items to the next item
Tag ==
  /\ pc = "tag"
  /\ LET item == items[idx]
         outcomes == IF item.kind = "Song"
                     THEN {[out |-> t.out, songs |-> <<>>, disk |-> t.disk,
                            events |-> <<TagCallEvent(idx), SongTagEvent(0, item)>>
                                          \o t.events] :
                           t \in SongTagOutcomes(item, disk)}
                     ELSE AlbumTagOutcomes(item.songs, item.cover, 1, disk,
                                           <<TagCallEvent(idx)>>)
     IN \E t \in outcomes :
          /\ disk' = t.disk
          /\ items' = IF item.kind = "Album"
                      THEN [items EXCEPT ![idx].songs = t.songs]
                      ELSE items
          /\ IF t.out.ok
             THEN /\ log' = log \o Append(t.events, ItemEvent("tagged", idx))
                  /\ pc' = AfterTag(idx, Len(items)).pc
                  /\ idx' = AfterTag(idx, Len(items)).idx
                  /\ UNCHANGED exit_status
             ELSE /\ Ends(t.out.exc, t.events)
                  /\ UNCHANGED idx
  /\ UNCHANGED <<rev, env, args, mutagen, results, choices, prompts,
                 temp_files, fn>>

RemoveEvent(file) == [ev |-> "remove", file |-> file]

\* Mutant: the last registered file is left on disk
CleanupEnd_SkipsLast(files) == Len(files) - 1

\* Where the cleanup loop of main() ends: after the last registered file
CleanupEnd(files) == Len(files)

\* main(), cleanup: os.remove of the temporary file at position idx
RemoveTempFile ==
  /\ pc = "cleanup"
  /\ idx <= CleanupEnd(temp_files)
  /\ LET file == temp_files[idx]
     IN IF file \in disk.temp
        THEN /\ disk' = [disk EXCEPT !.temp = @ \ {file}]
             /\ log' = Append(log, RemoveEvent(file))
             /\ idx' = idx + 1
             /\ UNCHANGED <<pc, exit_status>>
        ELSE /\ Ends("FileNotFoundError", <<>>)
             /\ UNCHANGED <<disk, idx>>
  /\ UNCHANGED <<rev, env, args, mutagen, results, choices, prompts, items,
                 temp_files, fn>>

\* main() returns after its cleanup loop
Return ==
  /\ pc = "cleanup"
  /\ idx > CleanupEnd(temp_files)
  /\ Completes(<<>>)
  /\ UNCHANGED <<rev, env, args, mutagen, results, choices, prompts, items,
                 idx, temp_files, disk, fn>>

Next ==
  \/ Search
  \/ ShowListing
  \/ Prompt
  \/ CreateMediaItems
  \/ ScriptCreateMediaItems
  \/ DownloadItem
  \/ DumpInfo
  \/ DownloadLyrics
  \/ TagItems
  \/ GetCover
  \/ Tag
  \/ RemoveTempFile
  \/ Return
  \/ Interrupt

Spec == Init /\ [][Next]_vars

\* The run with the line read at the prompt kept in view: a song run of the
\* package and an album run of the script, on two search results, with one
\* more line on standard input
PromptInit ==
  /\ args \in {c \in Configs : ~c.no_tag /\ ~c.dump_json /\ c.dir = DefaultDir}
  /\ rev = IF args.is_song THEN "package" ELSE "script"
  /\ env = [search |-> Ranking(2), stdin |-> MaxPrompts + 1]
  /\ mutagen = TRUE
  /\ fn = Traced(None)
  /\ RunStart

SpecPrompt == PromptInit /\ [][Next]_vars


----------------------------------------------------------------------------
(* C1: for every search-result record, the artist resolved by the result   *)
(* listing, by createSongFromSearch and by createAlbum is the name of the  *)
(* artists entry at index 1 when there are at least 2 entries, and the     *)
(* name of the entry at index 0 when there is exactly 1.                   *)

ArtistOfRecord(artists) ==
  IF Len(artists) >= 2 THEN artists[2].name ELSE artists[1].name

C1_ResolvedArtist ==
  /\ Applied("listing")
       /\ (\A i \in DOMAIN fn.arg.search_results :
             Len(fn.arg.search_results[i].artists) >= 1)
       => /\ fn.out.ok
          /\ Len(fn.out.val) = Len(fn.arg.search_results)
          /\ \A i \in DOMAIN fn.arg.search_results :
               fn.out.val[i].artist = ArtistOfRecord(fn.arg.search_results[i].artists)
  /\ (Applied("createSongFromSearch") \/ Applied("createAlbum"))
       /\ Len(fn.arg.data.artists) >= 1
       => fn.out.ok /\ fn.out.val.artist = ArtistOfRecord(fn.arg.data.artists)

C1_Witness ==
  /\ Applied("createAlbum")
  /\ Len(fn.arg.data.artists) >= 2
  /\ fn.arg.data.artists[1].name # fn.arg.data.artists[2].name
  /\ fn.out.ok
  /\ fn.out.val.artist = fn.arg.data.artists[2].name

----------------------------------------------------------------------------
(* C2: for every non-empty thumbnail list (entries may lack a width),      *)
(* get_cover selects the URL of the first entry in list order whose width  *)
(* is present and >= 500 (500 itself qualifies); if no entry qualifies it  *)
(* selects the URL of the last entry of the list.                          *)

Qualifies(thumb) == "width" \in DOMAIN thumb /\ thumb.width >= 500

ExpectedCoverUrl(thumbnails) ==
  IF \E i \in DOMAIN thumbnails : Qualifies(thumbnails[i])
  THEN LET first == CHOOSE i \in DOMAIN thumbnails :
                      /\ Qualifies(thumbnails[i])
                      /\ \A j \in 1..(i - 1) : ~Qualifies(thumbnails[j])
       IN thumbnails[first].url
  ELSE thumbnails[Len(thumbnails)].url

C2_CoverSelection ==
  /\ Applied("Album.get_cover") /\ fn.arg.thumbnails # <<>>
       => fn.out.ok /\ fn.out.val = ExpectedCoverUrl(fn.arg.thumbnails)
  /\ Applied("Song.get_cover") /\ fn.arg.hits[1].thumbnails # <<>>
       => fn.out.ok /\ fn.out.val = ExpectedCoverUrl(fn.arg.hits[1].thumbnails)

C2_Witness ==
  /\ Applied("Album.get_cover")
  /\ Len(fn.arg.thumbnails) = 3
  /\ "width" \notin DOMAIN fn.arg.thumbnails[1]
  /\ Qualifies(fn.arg.thumbnails[2]) /\ fn.arg.thumbnails[2].width = 500
  /\ Qualifies(fn.arg.thumbnails[3])
  /\ fn.arg.thumbnails[2].url # fn.arg.thumbnails[3].url
  /\ fn.out.ok /\ fn.out.val = fn.arg.thumbnails[2].url

----------------------------------------------------------------------------
(* C3, as claimed: for every track entry that has no track_number field    *)
(* but has a playlist_index field, whatever other fields it has or lacks,  *)
(* the tags Song.tag saves carry a track number equal to playlist_index.   *)

Has(info, key) == key \in DOMAIN info

C3_AsClaimed ==
  Applied("Song.tag") /\ fn.out.ok
    /\ ~Has(fn.arg.info, "track_number") /\ Has(fn.arg.info, "playlist_index")
    => /\ "trkn" \in DOMAIN fn.out.val
       /\ fn.out.val.trkn[1] = fn.arg.info.playlist_index

\* Song.tag reaches its save: a cover is set, and the keys it reads without
\* a handler are present (with a non-empty artist list).
TagCompletes(info, cover) ==
  /\ cover # None
  /\ RequiredKeys \cup {"release_year"} \subseteq DOMAIN info
  /\ info.artist.kind = "list" => info.artist.elems # <<>>

(* C3, amended: for every track entry on which Song.tag reaches its save   *)
(* and that has no track_number field, the saved track-number tag is       *)
(* (playlist_index, n_entries) when both of these fields are present, and  *)
(* no track-number tag is written when playlist_index or n_entries is      *)
(* absent.                                                                 *)
C3_TrackNumberFallback ==
  Applied("Song.tag") /\ ~Has(fn.arg.info, "track_number")
    => LET info == fn.arg.info
       IN /\ TagCompletes(info, fn.arg.cover) <=> fn.out.ok
          /\ fn.out.ok /\ Has(info, "playlist_index") /\ Has(info, "n_entries")
               => /\ "trkn" \in DOMAIN fn.out.val
                  /\ fn.out.val.trkn = <<info.playlist_index, info.n_entries>>
          /\ fn.out.ok /\ ~(Has(info, "playlist_index") /\ Has(info, "n_entries"))
               => "trkn" \notin DOMAIN fn.out.val

C3_Witness ==
  /\ Applied("Song.tag") /\ fn.out.ok
  /\ ~Has(fn.arg.info, "track_number")
  /\ Has(fn.arg.info, "playlist_index") /\ Has(fn.arg.info, "n_entries")
  /\ fn.arg.info.playlist_index = 2
  /\ fn.out.val.trkn = <<2, fn.arg.info.n_entries>>

----------------------------------------------------------------------------
(* C4: for every track entry, the artist tag written by Song.tag is the    *)
(* first comma-separated segment of the artist field when that field is a  *)
(* string ("A, B" gives "A"), and the first element when it is a list.     *)

\* The part of s before its first comma, all of s when it has none
FirstSegment(s) ==
  LET commas == {i \in DOMAIN s : s[i] = ","}
      stop == IF commas = {} THEN Len(s) + 1
              ELSE CHOOSE i \in commas : \A j \in commas : i <= j
  IN SubSeq(s, 1, stop - 1)

C4_ArtistTag ==
  Applied("Song.tag")
    => LET artist == fn.arg.info.artist
       IN /\ TagCompletes(fn.arg.info, fn.arg.cover) => fn.out.ok
          /\ fn.out.ok /\ artist.kind = "str"
               => fn.out.val.ART = FirstSegment(artist.val)
          /\ fn.out.ok /\ artist.kind = "list"
               => fn.out.val.ART = artist.elems[1]

C4_Witness ==
  /\ Applied("Song.tag") /\ fn.out.ok
  /\ fn.arg.info.artist = StrArtist(<<"A", ",", " ", "B">>)
  /\ fn.out.val.ART = <<"A">>

----------------------------------------------------------------------------
(* Claims about the run. *)

Last(seq) == seq[Len(seq)]

Happened(ev) == \E i \in DOMAIN log : log[i].ev = ev

Count(ev) == Cardinality({i \in DOMAIN log : log[i].ev = ev})

ReturnedNormally == pc = "exited" /\ log # <<>> /\ Last(log).ev = "return"

EndedWith(exc) ==
  pc = "exited" /\ log # <<>> /\ Last(log).ev = "raise" /\ Last(log).exc = exc

Removals(file) ==
  Cardinality({i \in DOMAIN log : log[i].ev = "remove" /\ log[i].file = file})

(* C5: in every run that completes normally, every temporary cover file    *)
(* registered during the run is off the disk when the process ends, and    *)
(* was removed exactly once; when the n top-level items each fetched one   *)
(* cover, exactly n temporary files were created and exactly n removed.    *)
C5_TempFilesRemoved ==
  ReturnedNormally
    => /\ \A i \in DOMAIN temp_files :
            temp_files[i] \notin disk.temp /\ Removals(temp_files[i]) = 1
       /\ disk.temp = {}
       /\ Count("remove") = disk.made
       /\ Count("urlretrieve") = Len(items)
            => disk.made = Len(items) /\ Count("remove") = Len(items)

C5_Witness ==
  /\ ReturnedNormally
  /\ Len(items) = 2
  /\ disk.made = 2
  /\ Count("remove") = 2
  /\ disk.temp = {}

----------------------------------------------------------------------------
(* C6, as claimed: for every list of N search results and every accepted   *)
(* pick list p1..pk with each pi in 1..N, create_media_items produces      *)
(* exactly k MediaItems in pick order, the i-th built from the record at   *)
(* position pi.                                                            *)

BuiltFrom(item, record) ==
  /\ item.title = record.title
  /\ item.artist = ArtistOfRecord(record.artists)
  /\ item.kind = "Song" => item.song_id = record.videoId
  /\ item.kind = "Album" => item.album_id = <<"P", record.browseId>>

\* The catalog failed to resolve an album during create_media_items
CatalogFailed == EndedWith("ConnectionError") /\ ~Happened("makedirs")

C6_AsClaimed ==
  /\ Happened("create_media_items")
  /\ ~CatalogFailed
  /\ \A i \in DOMAIN choices : choices[i] \in 1..Len(results)
  => /\ Len(items) = Len(choices)
     /\ \A i \in DOMAIN items : BuiltFrom(items[i], results[choices[i]])

----------------------------------------------------------------------------
(* C7: whenever the line entered at the choice prompt equals "q" after     *)
(* trimming whitespace and lower-casing, the process ends with exit status *)
(* 0, no MediaItem is created, and no download, cover fetch or tag write   *)
(* takes place.                                                            *)

\* Spaces, then q or Q, then spaces
QuitLine(l) ==
  \E i \in DOMAIN l :
    /\ l[i] \in {"q", "Q"}
    /\ \A j \in DOMAIN l \ {i} : l[j] = " "

LineRead == fn.op = "trace" /\ fn.line # None

C7_QuitExitsClean ==
  LineRead /\ QuitLine(fn.line[1])
    => /\ pc = "exited"
       /\ exit_status = Some(0)
       /\ items = <<>>
       /\ ~Happened("create_media_items")
       /\ ~Happened("extract_info")
       /\ ~Happened("urlretrieve")
       /\ ~Happened("save")
       /\ disk = EmptyDisk

C7_Witness ==
  /\ LineRead
  /\ fn.line[1] = <<" ", "Q">>
  /\ pc = "exited"
  /\ exit_status = Some(0)

----------------------------------------------------------------------------
(* C8: a choice line with at least one token that is not an integer is     *)
(* rejected as a whole: the prompt is shown again, no pick of the line is  *)
(* retained, no item is created and the process does not end; the loop     *)
(* ends only with the first line whose tokens are all integers (or with    *)
(* quit), and the picks returned are that line's tokens in order.          *)

\* With the characters typed here, a token is an integer exactly when all
\* its characters are digits, and every number has one digit
HasNonInteger(l) == \E i \in DOMAIN l : l[i] \notin Digits \cup {" "}

PicksOf(l) ==
  LET digits == SelectSeq(l, LAMBDA c : c \in Digits)
  IN [i \in DOMAIN digits |-> DigitVal(digits[i])]

\* The prompt has handled the line read, and neither a keyboard interrupt
\* nor the end of standard input has ended the process since
Handled ==
  LineRead /\ ~EndedWith("KeyboardInterrupt") /\ ~EndedWith("EOFError")

C8_RejectedAsAWhole ==
  /\ Handled /\ HasNonInteger(fn.line[1]) /\ ~QuitLine(fn.line[1])
       => /\ pc = "prompt"
          /\ exit_status = None
          /\ choices = <<>>
          /\ items = <<>>
          /\ results = env.search
          /\ disk = EmptyDisk
          /\ log = <<Event("search")>>
  /\ Handled /\ ~HasNonInteger(fn.line[1])
       => pc = "create" /\ choices = PicksOf(fn.line[1])
  /\ fn.op = "trace" /\ pc = "create"
       => LineRead /\ ~HasNonInteger(fn.line[1])

C8_Witness ==
  /\ LineRead
  /\ fn.line[1] = <<"2">>
  /\ prompts = 2
  /\ pc = "create"
  /\ choices = <<2>>

----------------------------------------------------------------------------
(* C9: for every Song or Album, download makes the destination directory   *)
(* exist, missing parents included, before the download tool is invoked,   *)
(* raises no error when the directory already exists, and then leaves the  *)
(* directory tree as it was.                                               *)

DownloadStep ==
  /\ pc = "download"
  /\ idx <= Len(items)
  /\ Len(log') > Len(log)
  /\ log'[Len(log) + 1].ev = "makedirs"

C9_Step ==
  DownloadStep
    => LET target == Resolve(disk.cwd, items[idx].path)
           calls == {k \in (Len(log) + 1)..Len(log') : log'[k].ev = "extract_info"}
       IN /\ calls # {}
          /\ \A k \in calls : k > Len(log) + 1
          /\ Prefixes(target) \subseteq disk'.dirs
          /\ target \in disk.dirs => disk'.dirs = disk.dirs

C9_DirectoryBeforeDownload == [][C9_Step]_vars

C9_Witness ==
  \E i, j, k, l \in DOMAIN log :
    /\ i < j /\ j < k /\ k < l
    /\ log[i].ev = "makedirs" /\ ~log[i].existed
    /\ log[j].ev = "extract_info"
    /\ log[k].ev = "makedirs" /\ log[k].existed
    /\ log[l].ev = "extract_info"

----------------------------------------------------------------------------
(* C10: the exit status is 0 on normal completion, on quit, and on a       *)
(* keyboard interrupt at any step of the run; it is nonzero for every      *)
(* other uncaught error, a connectivity failure at search time included.   *)

C10_ExitStatus ==
  /\ exit_status # None <=> pc = "exited"
  /\ pc = "exited" =>
       /\ log # <<>>
       /\ Last(log).ev \in {"return", "raise"}
       /\ ReturnedNormally => exit_status = Some(0)
       /\ EndedWith("SystemExit") => exit_status = Some(0)
       /\ EndedWith("KeyboardInterrupt") => exit_status = Some(0)
       /\ Last(log).ev = "raise"
            /\ Last(log).exc \notin {"SystemExit", "KeyboardInterrupt"}
            => exit_status # Some(0)

\* An interrupt in the middle of the cleanup loop
C10_Witness ==
  /\ EndedWith("KeyboardInterrupt")
  /\ exit_status = Some(0)
  /\ Happened("remove")
  /\ disk.temp # {}

----------------------------------------------------------------------------
(* C11: if the skip-tag flag is set or the tagging library is unavailable, *)
(* then no cover is fetched, no temporary file is created and no tag is    *)
(* written for any item, and once the downloads are done the run goes on   *)
(* to return normally with exit status 0: from the tagging step on, only   *)
(* a keyboard interrupt ends it otherwise.                                 *)

TaggingSkipped == args.no_tag \/ ~mutagen

NothingTagged ==
  /\ ~Happened("cover_search")
  /\ ~Happened("urlretrieve")
  /\ ~Happened("save")
  /\ temp_files = <<>>
  /\ disk.made = 0
  /\ disk.temp = {}
  /\ disk.tags = {}
  /\ \A i \in DOMAIN items : items[i].cover = None

C11_Step ==
  TaggingSkipped /\ pc \in {"tag_items", "cleanup"}
    => \/ pc' \in {"tag_items", "cleanup"}
       \/ ReturnedNormally' /\ exit_status' = Some(0)
       \/ EndedWith("KeyboardInterrupt")'

----------------------------------------------------------------------------
(* C12: a top-level item's downloaded metadata is non-null exactly when    *)
(* the download tool has returned metadata for it: that is when its        *)
(* download has returned without error, or, for an Album, when the         *)
(* building of its child songs raised after the metadata was stored. A     *)
(* child Song of an Album carries its track entry as metadata from its     *)
(* construction on, and download is never invoked on it.                   *)

Downloaded(i) == \E n \in DOMAIN log : log[n] = ItemEvent("downloaded", i)

\* download_items iterates over the top-level items only
ChildDownloaded(i, k) ==
  \E n \in DOMAIN log : log[n] = [ev |-> "downloaded", item |-> i, child |-> k]

AlbumsOf(its) == {i \in DOMAIN its : its[i].kind = "Album"}

\* The run ended inside the download of item i, after the tool had
\* returned, on an error of the child-song construction
FailedAddingSongs(i) ==
  /\ items[i].kind = "Album"
  /\ pc = "exited"
  /\ Len(log) >= 2
  /\ log[Len(log) - 1] = ItemEvent("extract_info", i)
  /\ Last(log).ev = "raise"
  /\ Last(log).exc \in {"KeyError", "IndexError"}

C12_AsClaimed ==
  /\ \A i \in DOMAIN items : items[i].info # NoInfo <=> Downloaded(i)
  /\ \A i \in AlbumsOf(items) : \A k \in DOMAIN items[i].songs :
        items[i].songs[k].info # NoInfo <=> ChildDownloaded(i, k)

C12_InfoPresence ==
  /\ \A i \in DOMAIN items :
        /\ Downloaded(i) => items[i].info # NoInfo
        /\ items[i].info # NoInfo => Downloaded(i) \/ FailedAddingSongs(i)
  /\ \A i \in AlbumsOf(items) : \A k \in DOMAIN items[i].songs :
        /\ items[i].info # NoInfo
        /\ items[i].songs[k].info = items[i].info.entries[k]
        /\ items[i].songs[k].info # NoInfo
        /\ ~ChildDownloaded(i, k)

C12_Witness ==
  /\ pc = "exited"
  /\ Len(items) = 2
  /\ items[1].kind = "Album"
  /\ Downloaded(1)
  /\ Len(items[1].songs) = 1
  /\ items[1].songs[1].info = EntryFull
  /\ items[2].info = NoInfo
  /\ ~Downloaded(2)
  /\ EndedWith("DownloadError")

C12_FailedWitness ==
  \E i \in DOMAIN items : FailedAddingSongs(i) /\ items[i].info # NoInfo

----------------------------------------------------------------------------
(* C13: an Album's songs list is empty until the download tool has         *)
(* returned its metadata; once its download has completed the list holds   *)
(* exactly one child Song per track entry of the metadata, in entry order; *)
(* and when the construction of a child raises, the run ends with the      *)
(* children of the entries before the failing one in the list.             *)

ChildrenOf(i, n) ==
  /\ Len(items[i].songs) = n
  /\ n <= Len(items[i].info.entries)
  /\ \A k \in 1..n :
        /\ items[i].songs[k].info = items[i].info.entries[k]
        /\ items[i].songs[k].title = items[i].info.entries[k].track

C13_AsClaimed ==
  \A i \in AlbumsOf(items) :
    IF Downloaded(i)
    THEN ChildrenOf(i, Len(items[i].info.entries))
    ELSE items[i].songs = <<>>

C13_SongsList ==
  \A i \in AlbumsOf(items) :
    /\ items[i].info = NoInfo => items[i].songs = <<>> /\ ~Downloaded(i)
    /\ Downloaded(i) => ChildrenOf(i, Len(items[i].info.entries))
    /\ items[i].info # NoInfo /\ ~Downloaded(i) =>
         /\ FailedAddingSongs(i)
         /\ \E n \in 0..(Len(items[i].info.entries) - 1) :
              /\ ChildrenOf(i, n)
              /\ ~createSongFromSongInfo(items[i].info.entries[n + 1],
                                         items[i].path).ok

C13_Witness ==
  /\ Len(items) = 2
  /\ items[1].kind = "Album"
  /\ Downloaded(1)
  /\ items[1].info.entries = <<EntryFull, EntryNoYear>>
  /\ ChildrenOf(1, 2)
  /\ items[2].kind = "Album"
  /\ items[2].info = NoInfo
  /\ items[2].songs = <<>>

C13_PartialWitness ==
  \E i \in AlbumsOf(items) : FailedAddingSongs(i) /\ Len(items[i].songs) = 1

----------------------------------------------------------------------------
(* C14: as long as the cleanup has removed nothing, every non-null cover   *)
(* path held by a top-level item or by a child Song of an Album names a    *)
(* temporary file that is on the disk and is registered in the temp-file   *)
(* list.                                                                   *)

BeforeCleanup == ~Happened("remove")

IsTempFile(cover) ==
  cover # None =>
    /\ cover[1] \in disk.temp
    /\ \E n \in DOMAIN temp_files : temp_files[n] = cover[1]

C14_CoversAreTempFiles ==
  BeforeCleanup =>
    /\ \A i \in DOMAIN items : IsTempFile(items[i].cover)
    /\ \A i \in AlbumsOf(items) : \A k \in DOMAIN items[i].songs :
          IsTempFile(items[i].songs[k].cover)

C14_Witness ==
  /\ BeforeCleanup
  /\ pc = "cleanup"
  /\ Len(items) = 2
  /\ items[1].kind = "Album"
  /\ items[1].cover # None
  /\ Len(items[1].songs) = 1
  /\ items[1].songs[1].cover = items[1].cover
  /\ items[2].cover # None
  /\ items[2].cover # items[1].cover
  /\ Len(temp_files) = 2

----------------------------------------------------------------------------
(* C15: the items are downloaded one at a time in the order of the picks;  *)
(* the download of every item has completed before the cover fetch or the  *)
(* tag of any item starts; covers are fetched and items tagged in the same *)
(* order, the cover fetch of an item being followed at once by the tag of  *)
(* that item; and a temporary file is removed only after the last item has *)
(* been tagged.                                                            *)

Before(n, ev, i) == \E m \in 1..(n - 1) : log[m].ev = ev /\ log[m].item = i

TaggingEvents ==
  {"cover_search", "get_cover", "urlretrieve", "item.tag", "Song.tag", "save", "tagged"}

\* the event that follows position n once the saves of the tag are passed
RECURSIVE AfterSaves(_)
AfterSaves(n) ==
  IF n > Len(log) THEN Event("none")
  ELSE IF log[n].ev \in {"item.tag", "Song.tag", "save"} THEN AfterSaves(n + 1)
  ELSE log[n]

DownloadsInOrder ==
  \A n \in DOMAIN log :
    log[n].ev \in {"makedirs", "extract_info"} =>
      /\ \A j \in 1..(log[n].item - 1) : Before(n, "downloaded", j)
      /\ ~Before(n, log[n].ev, log[n].item)
      /\ ~Before(n, "downloaded", log[n].item)

DownloadsBeforeTagging ==
  \A n \in DOMAIN log :
    log[n].ev \in TaggingEvents =>
      \A i \in DOMAIN items : Before(n, "downloaded", i)

TaggingInOrder ==
  \A n \in DOMAIN log :
    /\ log[n].ev \in {"cover_search", "urlretrieve"} =>
         /\ \A j \in 1..(log[n].item - 1) : Before(n, "tagged", j)
         /\ ~Before(n, "tagged", log[n].item)
         /\ ~Before(n, log[n].ev, log[n].item)
    /\ log[n].ev = "urlretrieve" /\ log[n].file # None =>
         AfterSaves(n + 1) \in {ItemEvent("tagged", log[n].item), Event("none")}
                               \cup {RaiseEvent(e) : e \in
                                       {"KeyboardInterrupt", "KeyError", "IndexError",
                                        "AssertionError", "MutagenError",
                                        "FileNotFoundError"}}
    /\ log[n].ev = "tagged" =>
         /\ Before(n, "urlretrieve", log[n].item)
         /\ \A m \in 1..(n - 1) :
              log[m].ev = "urlretrieve" /\ log[m].item = log[n].item =>
                /\ log[m + 1] = TagCallEvent(log[n].item)
                /\ \A k \in (m + 2)..(n - 1) : log[k].ev \in {"Song.tag", "save"}

RemovalsAfterTagging ==
  \A n \in DOMAIN log :
    log[n].ev = "remove" =>
      /\ items # <<>>
      /\ \A i \in DOMAIN items : Before(n, "tagged", i)

\* the item at position i is the one built from the i-th pick
ItemsInPickOrder ==
  items # <<>> =>
    /\ Len(items) = Len(choices)
    /\ \A i \in DOMAIN items :
          /\ choices[i] \in 1..Len(results)
          /\ BuiltFrom(items[i], results[choices[i]])

C15_PhaseOrder ==
  /\ ItemsInPickOrder
  /\ DownloadsInOrder
  /\ DownloadsBeforeTagging
  /\ TaggingInOrder
  /\ RemovalsAfterTagging

C15_Witness ==
  /\ ReturnedNormally
  /\ Len(items) = 2
  /\ choices = <<2, 1>>
  /\ Count("downloaded") = 2
  /\ Count("urlretrieve") = 2
  /\ Count("save") = 2
  /\ Count("tagged") = 2
  /\ Count("remove") = 2

----------------------------------------------------------------------------
(* C16: for every track entry that has its artist, album and track fields  *)
(* and lacks any subset of the fields release_year, genre, track_number,   *)
(* playlist_index and n_entries, Song.tag completes without error, writes  *)
(* the artist, album, title and cover tags, and omits exactly the tags     *)
(* whose fields are absent.                                                *)

TagsRequiredFields(info, cover) ==
  /\ cover # None
  /\ RequiredKeys \subseteq DOMAIN info
  /\ info.artist.kind = "list" => info.artist.elems # <<>>

C16_AsClaimed ==
  Applied("Song.tag") /\ TagsRequiredFields(fn.arg.info, fn.arg.cover)
    => LET info == fn.arg.info
       IN /\ fn.out.ok
          /\ {"ART", "alb", "nam", "covr"} \subseteq DOMAIN fn.out.val
          /\ fn.out.val.alb = info.album
          /\ fn.out.val.nam = info.track
          /\ fn.out.val.covr = fn.arg.cover[1]
          /\ "day" \in DOMAIN fn.out.val
               <=> Has(info, "release_year") /\ info.release_year # None
          /\ "gen" \in DOMAIN fn.out.val <=> Has(info, "genre")
          /\ "trkn" \in DOMAIN fn.out.val
               <=> /\ Has(info, "n_entries")
                   /\ Has(info, "track_number") \/ Has(info, "playlist_index")

----------------------------------------------------------------------------
(* C17: when get_cover finds no thumbnails at all for an item (for an      *)
(* Album an empty thumbnail list in its metadata, for a Song no hit of the *)
(* album search or a hit with an empty thumbnail list), it raises an       *)
(* IndexError that nothing catches: the run ends there, the cover of the   *)
(* item stays unset, no temporary file is retrieved or registered for it,  *)
(* and the item is not tagged.                                             *)

NoThumbnails(hits) == hits = <<>> \/ hits[1].thumbnails = <<>>

FoundNoThumbnails(n) ==
  \/ log[n].ev = "cover_search" /\ NoThumbnails(log[n].hits)
  \/ log[n].ev = "get_cover" /\ log[n].thumbnails = <<>>

CoverStepFailed(i) ==
  /\ EndedWith("IndexError")
  /\ items[i].cover = None
  /\ items[i].kind = "Album" =>
       \A k \in DOMAIN items[i].songs : items[i].songs[k].cover = None
  /\ ~\E m \in DOMAIN log : log[m].ev = "urlretrieve" /\ log[m].item = i
  /\ ~\E m \in DOMAIN log : log[m].ev \in {"item.tag", "tagged"} /\ log[m].item = i
  /\ Len(temp_files) = i - 1
  /\ disk.made = i - 1
  /\ ~Happened("remove")

C17_NoThumbnailsIsFatal ==
  \A n \in DOMAIN log :
    FoundNoThumbnails(n) => n + 1 = Len(log) /\ CoverStepFailed(log[n].item)

C17_Witness ==
  /\ Len(items) = 2
  /\ items[2].kind = "Album"
  /\ items[2].info # NoInfo
  /\ items[2].info.thumbnails = <<>>
  /\ items[2].songs # <<>>
  /\ items[1].cover # None
  /\ Len(log) >= 2
  /\ FoundNoThumbnails(Len(log) - 1)
  /\ CoverStepFailed(2)

C17_SongWitness ==
  /\ items # <<>> /\ items[1].kind = "Song"
  /\ Len(log) >= 2
  /\ log[Len(log) - 1].ev = "cover_search"
  /\ log[Len(log) - 1].hits = <<[thumbnails |-> <<>>]>>
  /\ CoverStepFailed(1)

----------------------------------------------------------------------------
(* C18: a search-result record whose artists list is empty makes the       *)
(* artist lookup raise IndexError in the result listing, in                *)
(* createSongFromSearch and in createAlbum; a run whose search results     *)
(* hold such a record ends at the listing with that error (or with a       *)
(* keyboard interrupt before it) without creating an item and without      *)
(* downloading anything, and no item ever has an empty artist.             *)

EmptyArtistRecords == {r \in SearchRecords : r.artists = <<>>} \cup {NoArtistRecord}

HasEmptyArtists(rs) == \E i \in DOMAIN rs : rs[i].artists = <<>>

LookupFails ==
  \A r \in EmptyArtistRecords :
    /\ ListingArtist(r) = Raised("IndexError")
    /\ Listing(<<r>>, 0, <<>>) = Raised("IndexError")
    /\ \A d \in Dirs :
         /\ createSongFromSearch(r, d) = Raised("IndexError")
         /\ createAlbum(r, d, Catalog) = Raised("IndexError")

C18_EmptyArtistsFatal ==
  /\ LookupFails
  /\ HasEmptyArtists(results) =>
       /\ pc \in {"listing", "exited"}
       /\ pc = "exited" =>
            EndedWith("IndexError") \/ EndedWith("KeyboardInterrupt")
       /\ choices = <<>>
       /\ items = <<>>
       /\ ~Happened("create_media_items") /\ ~Happened("get_album")
       /\ ~Happened("makedirs") /\ ~Happened("extract_info")
       /\ disk.files = {} /\ disk.dirs = EmptyDisk.dirs
  /\ \A i \in DOMAIN items :
       /\ items[i].artist # <<>>
       /\ items[i].artist = ArtistOfRecord(results[choices[i]].artists)

C18_Witness ==
  /\ HasEmptyArtists(results)
  /\ EndedWith("IndexError")
  /\ exit_status = Some(1)
  /\ items = <<>>

----------------------------------------------------------------------------
(* C19: for every non-empty thumbnail list, get_cover selects the first    *)
(* entry in list order whose width is at least 500 and, when none          *)
(* qualifies, the last entry; when every entry has a width and the widths  *)
(* do not decrease along the list, that is a thumbnail of smallest width   *)
(* among those of width at least 500 and, when none qualifies, a thumbnail *)
(* of largest width.                                                       *)

AllHaveWidth(thumbnails) ==
  \A i \in DOMAIN thumbnails : "width" \in DOMAIN thumbnails[i]

Ascending(thumbnails) ==
  \A i \in 1..(Len(thumbnails) - 1) : thumbnails[i].width <= thumbnails[i + 1].width

\* the URLs of the thumbnails of smallest width at or above 500, or of
\* largest width when no thumbnail is that wide
SmallestSufficient(thumbnails) ==
  LET wide == {i \in DOMAIN thumbnails : thumbnails[i].width >= THUMB_RES}
  IN IF wide # {}
     THEN {thumbnails[i].url : i \in
             {i \in wide : \A j \in wide : thumbnails[i].width <= thumbnails[j].width}}
     ELSE {thumbnails[i].url : i \in
             {i \in DOMAIN thumbnails :
                \A j \in DOMAIN thumbnails : thumbnails[j].width <= thumbnails[i].width}}

CoverCall == Applied("Album.get_cover") \/ Applied("Song.get_cover")

ThumbnailsGiven ==
  IF fn.op = "Album.get_cover" THEN fn.arg.thumbnails ELSE fn.arg.hits[1].thumbnails

C19_AsClaimed ==
  CoverCall /\ ThumbnailsGiven # <<>> /\ AllHaveWidth(ThumbnailsGiven)
    => fn.out.ok /\ fn.out.val \in SmallestSufficient(ThumbnailsGiven)

C19_SmallestWhenAscending ==
  CoverCall /\ ThumbnailsGiven # <<>>
    => /\ fn.out.ok
       /\ fn.out.val = ExpectedCoverUrl(ThumbnailsGiven)
       /\ AllHaveWidth(ThumbnailsGiven) /\ Ascending(ThumbnailsGiven)
            => fn.out.val \in SmallestSufficient(ThumbnailsGiven)

C19_Witness ==
  /\ Applied("Song.get_cover")
  /\ Len(ThumbnailsGiven) = 3
  /\ AllHaveWidth(ThumbnailsGiven) /\ Ascending(ThumbnailsGiven)
  /\ ThumbnailsGiven[1].width = 498
  /\ ThumbnailsGiven[2].width = 499
  /\ ThumbnailsGiven[3].width = 499
  /\ ThumbnailsGiven[2].url # ThumbnailsGiven[3].url
  /\ fn.out.ok /\ fn.out.val = ThumbnailsGiven[3].url

C19_UnorderedWitness ==
  /\ Applied("Album.get_cover")
  /\ Len(ThumbnailsGiven) = 2
  /\ AllHaveWidth(ThumbnailsGiven)
  /\ ThumbnailsGiven[1].width = 501 /\ ThumbnailsGiven[2].width = 500
  /\ ThumbnailsGiven[1].url # ThumbnailsGiven[2].url
  /\ fn.out.ok /\ fn.out.val = ThumbnailsGiven[1].url

----------------------------------------------------------------------------
(* C20: for every track entry, the child Song that createSongFromSongInfo  *)
(* builds has as artist the value Song.tag writes as the artist tag of the *)
(* entry (the first element of a list, the first comma-separated segment   *)
(* of a string), and as path the path of the album.                        *)

C20_AsClaimed ==
  Applied("createSongFromSongInfo") /\ TagArtist(fn.arg.data.artist).ok
    => /\ fn.out.ok
       /\ fn.out.val.artist = TagArtist(fn.arg.data.artist).val
       /\ fn.out.val.path = fn.arg.path

----------------------------------------------------------------------------
(* C21: in album mode, once create_media_items has run on picks that are   *)
(* all valid, and the catalog has not failed, exactly one get_album call   *)
(* was made per pick, with the browse id of the picked record and in pick  *)
(* order, and there is one Album per pick whose album id is the playlist   *)
(* id the catalog returned and whose URL is the playlist URL of that id.   *)

GetAlbumCalls == SelectSeq(log, LAMBDA e : e.ev = "get_album")

ValidPicks == \A i \in DOMAIN choices : choices[i] \in 1..Len(results)

C21_AsClaimed ==
  /\ ~args.is_song
  /\ Happened("create_media_items")
  /\ ValidPicks
  /\ ~CatalogFailed
  /\ ~HasEmptyArtists(results)
  => /\ Len(GetAlbumCalls) = Len(choices)
     /\ Len(items) = Len(choices)
     /\ \A i \in DOMAIN choices :
          LET record == results[choices[i]]
              playlist == Catalog[record.browseId].audioPlaylistId
          IN /\ GetAlbumCalls[i].id = record.browseId
             /\ items[i].kind = "Album"
             /\ items[i].album_id = playlist
             /\ items[i].url = PlaylistUrl(playlist)

----------------------------------------------------------------------------
(* C22: the directory that the download of the k-th item creates and       *)
(* writes into is the path of the item, base directory / artist / title,   *)
(* resolved against the working directory the process started in, whatever *)
(* working directory the earlier downloads have left behind.               *)

ItemPath(i) ==
  ExpandUser(JoinPath(args.dir, items[i].artist,
                      IF items[i].kind = "Song" THEN items[i].album_title
                      ELSE items[i].title))

C22_AsClaimed ==
  /\ \A i \in DOMAIN items : items[i].path = ItemPath(i)
  /\ \A n \in DOMAIN log :
       log[n].ev = "makedirs" =>
         /\ log[n].target = Resolve(StartDir, ItemPath(log[n].item))
         /\ log[n].target \in disk.dirs
  /\ \A f \in disk.files :
       \E i \in DOMAIN items : f.dir = Resolve(StartDir, ItemPath(i))

----------------------------------------------------------------------------
(* C23: when an Album is tagged, Song.tag is called on its children in     *)
(* entry order, once each, every child having the album's cover at its     *)
(* call; when no child's tag raises, every child has been called and the   *)
(* Album is tagged; no temporary file is registered besides the ones that  *)
(* get_cover retrieved; an Album without children is tagged at once, with  *)
(* no call and no save.                                                    *)

\* the children Song.tag is called on from position n of the log on, up to
\* the end of the tag they belong to
RECURSIVE ChildCalls(_)
ChildCalls(n) ==
  IF n > Len(log) \/ log[n].ev \notin {"Song.tag", "save"} THEN <<>>
  ELSE IF log[n].ev = "save" THEN ChildCalls(n + 1)
  ELSE <<log[n]>> \o ChildCalls(n + 1)

AlbumTagCalls ==
  {n \in DOMAIN log : log[n].ev = "item.tag" /\ items[log[n].item].kind = "Album"}

Retrieved == {n \in DOMAIN log : log[n].ev = "urlretrieve" /\ log[n].file # None}

C23_AlbumTag ==
  /\ \A n \in AlbumTagCalls :
       LET album == items[log[n].item]
           calls == ChildCalls(n + 1)
           tagged == AfterSaves(n + 1) = ItemEvent("tagged", log[n].item)
           raised == AfterSaves(n + 1).ev = "raise"
                     /\ AfterSaves(n + 1).exc # "KeyboardInterrupt"
       IN /\ album.cover # None
          /\ Len(calls) <= Len(album.songs)
          /\ \A k \in DOMAIN calls :
               /\ calls[k].child = k
               /\ calls[k].cover = album.cover
               /\ album.songs[k].cover = album.cover
          /\ tagged \/ raised
          /\ tagged => Len(calls) = Len(album.songs)
          /\ album.songs = <<>> => tagged /\ log[n + 1] = ItemEvent("tagged", log[n].item)
  /\ Len(temp_files) = Cardinality(Retrieved)
  /\ disk.made = Cardinality(Retrieved)

C23_Witness ==
  \E n \in AlbumTagCalls :
    /\ Len(items[log[n].item].songs) = 2
    /\ Len(ChildCalls(n + 1)) = 2
    /\ Len(log) >= n + 5
    /\ log[n + 1].ev = "Song.tag" /\ log[n + 2].ev = "save"
    /\ log[n + 3].ev = "Song.tag" /\ log[n + 4].ev = "save"
    /\ log[n + 2].tags.nam = <<"x">>
    /\ log[n + 4].tags.nam = <<"y">>
    /\ log[n + 5] = ItemEvent("tagged", log[n].item)
    /\ Len(temp_files) = 1

C23_EmptyAlbumWitness ==
  \E n \in AlbumTagCalls :
    /\ items[log[n].item].songs = <<>>
    /\ log[n + 1] = ItemEvent("tagged", log[n].item)

----------------------------------------------------------------------------
(* C24: the cleanup loop starts only after every item has been tagged      *)
(* without error; a run that ends abnormally before that (a keyboard       *)
(* interrupt or an uncaught error) removes none of the temporary cover     *)
(* files registered so far, and a run that is interrupted during the       *)
(* cleanup loop leaves on disk the files the loop has not reached yet.     *)

EndedAbnormally == pc = "exited" /\ log # <<>> /\ Last(log).ev = "raise"

AllTagged == \A i \in DOMAIN items : Before(Len(log) + 1, "tagged", i)

OnDisk(files) == \A k \in DOMAIN files : files[k] \in disk.temp

C24_AsClaimed ==
  EndedAbnormally /\ temp_files # <<>>
    => ~Happened("remove") /\ OnDisk(temp_files)

C24_NoCleanupBeforeAllTagged ==
  /\ Happened("remove") => AllTagged /\ RemovalsAfterTagging
  /\ EndedAbnormally /\ ~Happened("remove") => OnDisk(temp_files)
  /\ EndedAbnormally /\ Happened("remove") =>
       /\ EndedWith("KeyboardInterrupt")
       /\ \A k \in DOMAIN temp_files :
            IF k <= Count("remove")
            THEN temp_files[k] \notin disk.temp /\ Removals(temp_files[k]) = 1
            ELSE temp_files[k] \in disk.temp /\ Removals(temp_files[k]) = 0

C24_Witness ==
  /\ EndedAbnormally
  /\ ~EndedWith("KeyboardInterrupt")
  /\ Len(items) = 2
  /\ Before(Len(log) + 1, "tagged", 1)
  /\ Len(temp_files) = 2
  /\ OnDisk(temp_files)
  /\ ~Happened("remove")

C24_InterruptedCleanupWitness ==
  /\ EndedWith("KeyboardInterrupt")
  /\ Len(temp_files) = 2
  /\ Count("remove") = 1
  /\ temp_files[2] \in disk.temp

----------------------------------------------------------------------------
(* C25: an error that an external call raises and nothing catches (the     *)
(* catalog search, the resolution of an album, a download, a cover         *)
(* retrieval, a tag write) ends the run at once with a nonzero status: no  *)
(* step follows it, and no call is made a second time for the same item;   *)
(* when the download of an item fails, no cover is fetched and no tag is   *)
(* written for any item of the run.                                        *)

CleanExits == {"KeyboardInterrupt", "SystemExit"}

ItemCalls == {"makedirs", "extract_info", "cover_search", "get_cover", "urlretrieve",
              "item.tag"}

NoTaggingAtAll ==
  /\ \A n \in DOMAIN log : log[n].ev \notin TaggingEvents
  /\ temp_files = <<>> /\ disk.temp = {} /\ disk.tags = {}
  /\ \A i \in DOMAIN items : items[i].cover = None

C25_NoRetry ==
  /\ \A n \in DOMAIN log :
       log[n].ev = "raise" =>
         /\ n = Len(log)
         /\ pc = "exited"
         /\ log[n].exc \notin CleanExits => exit_status = Some(1)
  /\ Count("search") <= 1
  /\ Count("get_album") <= Len(choices)
  /\ \A n \in DOMAIN log :
       log[n].ev \in ItemCalls => ~Before(n, log[n].ev, log[n].item)
  /\ EndedWith("DownloadError") => NoTaggingAtAll

C25_Witness ==
  /\ EndedWith("DownloadError")
  /\ Len(items) = 2
  /\ Downloaded(1)
  /\ Count("extract_info") = 2
  /\ items[1].info # NoInfo
  /\ NoTaggingAtAll

C25_TagFailureWitness ==
  /\ EndedAbnormally
  /\ Last(log).exc \notin CleanExits
  /\ Len(items) = 2
  /\ Count("item.tag") = 1
  /\ Count("urlretrieve") = 1
  /\ ~Happened("tagged")

----------------------------------------------------------------------------
(* C26: whenever tag is called on an item, and for an Album on each of its *)
(* children, the Song being tagged has metadata and a cover, the cover     *)
(* being the file get_cover retrieved for the item; no run ends with a     *)
(* failed assertion once the tagging of an item has started.               *)

\* the position of the call item.tag() that the call at position n of the
\* log belongs to
RECURSIVE TagCallOf(_)
TagCallOf(n) ==
  IF n = 0 \/ log[n].ev = "item.tag" THEN n ELSE TagCallOf(n - 1)

C26_TagPreconditions ==
  /\ \A n \in DOMAIN log :
       log[n].ev = "Song.tag" =>
         /\ log[n].has_info
         /\ log[n].cover # None
         /\ TagCallOf(n) > 0
         /\ log[n].cover = items[log[TagCallOf(n)].item].cover
         /\ \E m \in Retrieved : /\ m < n
                                 /\ log[m].item = log[TagCallOf(n)].item
                                 /\ log[m].file = log[n].cover
  /\ \A n \in DOMAIN log :
       log[n].ev = "item.tag" =>
         /\ items[log[n].item].info # NoInfo
         /\ items[log[n].item].cover # None
  /\ EndedWith("AssertionError") => ~Happened("item.tag")

C26_Witness ==
  /\ Len(items) = 2
  /\ Count("tagged") = 2
  /\ \E n \in AlbumTagCalls : Len(ChildCalls(n + 1)) = 2
  /\ \A n \in DOMAIN log : log[n].ev = "Song.tag" => log[n].has_info /\ log[n].cover # None

C26_SongWitness ==
  /\ \E n \in DOMAIN log : log[n].ev = "Song.tag" /\ log[n].child = 0
  /\ Count("tagged") = 2

----------------------------------------------------------------------------
(* C27: when an Album whose tracks have pairwise distinct titles is        *)
(* tagged, every save of a child Song writes the file downloaded for that  *)
(* child's track, also when one title is a suffix of another, and no file  *)
(* is saved twice; after the tag every file that has tags has the tags of  *)
(* its own track.                                                          *)

DistinctTitles(entries) ==
  \A j, k \in DOMAIN entries : j # k => entries[j].title # entries[k].title

\* the saves made by the call item.tag() at position n of the log
SavesOf(n) == {m \in DOMAIN log : log[m].ev = "save" /\ TagCallOf(m) = n}

C27_AsClaimed ==
  \A n \in AlbumTagCalls :
    LET album == items[log[n].item]
    IN DistinctTitles(album.info.entries) =>
         /\ \A m \in SavesOf(n) :
              /\ log[m - 1].ev = "Song.tag"
              /\ log[m].file.stem =
                   AudioFile(log[m].file.dir, album.artist,
                             album.info.entries[log[m - 1].child].title).stem
              /\ log[m].tags.nam = album.info.entries[log[m - 1].child].track
         /\ \A m1, m2 \in SavesOf(n) : log[m1].file = log[m2].file => m1 = m2
         /\ \A t \in disk.tags :
              \A k \in DOMAIN album.info.entries :
                t.file.stem = AudioFile(t.file.dir, album.artist,
                                        album.info.entries[k].title).stem
                  => t.tags.nam = album.info.entries[k].track

\* The claim's case without a suffix among the titles: reachable, and the
\* saves go to the files of their own tracks
C27_DistinctWitness ==
  \E n \in AlbumTagCalls :
    /\ items[log[n].item].info.entries = <<EntryFull, EntrySecond>>
    /\ Cardinality(SavesOf(n)) = 2
    /\ AfterSaves(n + 1) = ItemEvent("tagged", log[n].item)

----------------------------------------------------------------------------
(* C28: with N search results, a pick that is accepted at the prompt and   *)
(* lies outside 1..N (0, a negative number, a number above N) never yields *)
(* a MediaItem: item creation ends with an error.                          *)

PickOf(line) == ParseInt(line).val

C28_AsClaimed ==
  Applied("create_media_items") /\ ReadChoices(fn.arg.line).kind = "choices"
    => (PickOf(fn.arg.line) \notin 1..Len(fn.arg.search_results) => ~fn.out.ok)

\* Picks above N, and negative picks below -(N - 1), do end item creation
\* with an IndexError
C28_BeyondTheList ==
  Applied("create_media_items")
    => LET pick == PickOf(fn.arg.line)
           N == Len(fn.arg.search_results)
       IN /\ (pick > N \/ pick < 1 - N)
               => ~fn.out.ok /\ fn.out.exc = "IndexError"
          /\ (pick <= N /\ pick >= 1 - N /\ pick < 1)
               => /\ fn.out.ok
                  /\ Len(fn.out.val) = 1
                  /\ fn.out.val[1].title = fn.arg.search_results[N + pick].title

C28_WrapsWitness ==
  /\ Applied("create_media_items")
  /\ fn.arg.line = <<"0">>
  /\ Len(fn.arg.search_results) = 2
  /\ fn.out.ok
  /\ fn.out.val[1].title = Ranked(2).title

----------------------------------------------------------------------------
(* C29: a line that is empty or holds only blanks is accepted at the       *)
(* prompt as an empty list of picks, without a second prompt; the run then *)
(* creates no item, makes no download, fetches no cover, writes no tag,    *)
(* and when it ends it ends with status 0, by returning from main() unless *)
(* a keyboard interrupt ended it.                                          *)

Blank(l) == \A i \in DOMAIN l : l[i] = " "

ItemSteps ==
  {"get_album", "makedirs", "chdir", "extract_info", "downloaded", "cover_search",
   "get_cover", "urlretrieve", "item.tag", "Song.tag", "save", "tagged", "remove"}

C29_BlankWitness ==
  /\ LineRead
  /\ fn.line[1] = <<" ", " ">>
  /\ pc = "create"
  /\ choices = <<>>

----------------------------------------------------------------------------
(* C30: with the dump flag set, results.json and info.json are written to  *)
(* one directory, the working directory the process was started in,        *)
(* whatever the number of downloaded items; info.json is written after the *)
(* last download.                                                          *)

InfoDumps == {j \in disk.json : j.name = "info.json"}

C30_AsClaimed ==
  /\ \A j \in disk.json : args.dump_json /\ j.dir = StartDir
  /\ InfoDumps # {} => \A i \in DOMAIN items : Downloaded(i)

\* What holds: results.json is in the start directory; info.json is written
\* after the last download, into the directory the last download moved to
C30_DumpDirectories ==
  /\ \A j \in disk.json :
       /\ args.dump_json
       /\ j.name = "results.json" => j.dir = StartDir /\ rev = "package"
       /\ j.name = "info.json" => j.dir = disk.cwd
  /\ InfoDumps # {} => \A i \in DOMAIN items : Downloaded(i)
  /\ InfoDumps # {} /\ items = <<>> => disk.cwd = StartDir

C30_NoItemWitness ==
  /\ args.dump_json
  /\ items = <<>>
  /\ disk.json = {[dir |-> StartDir, name |-> "results.json"],
                  [dir |-> StartDir, name |-> "info.json"]}

====
